---- MODULE Spec2Model ----
(***************************************************************************)
(* A model of the numerical core of whut-num-analysis-lab: the adaptive    *)
(* composite trapezoid rule and the Romberg table (chapter 3), the         *)
(* improved Euler and Runge-Kutta steppers (chapter 4), bisection and      *)
(* Newton's method (chapter 5), Jacobi and Gauss-Seidel (chapter 6).       *)
(*                                                                         *)
(* Numbers are exact rationals <<num, den>> with den > 0 in lowest terms:  *)
(* every comparison the code makes (error < tol, x < xn, f(a)*f(b) >= 0)   *)
(* is made on the exact value. The trapezoid rule, the Romberg table, the   *)
(* steppers, bisection and linearFit round every result as floating point  *)
(* does: there the rounding decides what is returned (overflow and         *)
(* underflow are left out). One call of one function is one behaviour:     *)
(* Init draws the arguments, one action is the entry of the function (its  *)
(* validation and the statements before its loop), one action is one pass  *)
(* of its loop, one action is what follows the loop.                       *)
(***************************************************************************)
EXTENDS Integers, Sequences, FiniteSets

VARIABLES
    fn,         \* the function that is called
    pc,         \* "call" | "loop" | "row" | "col" | "returned" | "thrown"
    f,          \* the callable passed as f (a name)
    a, b,       \* the interval's end points (bisection assigns them); b is
                \* the right-hand side of jacobi and gaussSeidel
    tol,        \* tolerance
    maxIter,    \* iteration budget
    hasCallback, \* whether adaptiveCompositeTrapezoid is given a callback
    Nmax,       \* rombergIntegrationWithTable's number of rows
    x0, y0, xn, \* the steppers' initial point and end; x0 is also newtonMethod's
                \* first guess and the linear solvers' first vector
    A,          \* the matrix of jacobi and gaussSeidel
    result,     \* what the call returned (NoValue before, and on a throw)
    thrown,     \* the Error the call threw (NoError when none)
    console,    \* what the call wrote to the console: "none" | "warn" | "error"
    cbLog,      \* the records the callback received, in order
    fCalls,     \* how often the quadrature functions have evaluated f
    prev,       \* what the caller holds of its previous call: what it returned
    passed,     \* a, b, x0 and A as the caller passed them (bisection assigns
                \* its a and b)
    \* locals, by the names the functions give them
    n, h, T_prev, T_curr, iter,
    R, tableData, rowData, i, j,
    x, y, points,
    c, x_old,
    \* the state of the linear-system view
    iterations,     \* state.jacobiIterations / state.gaussSeidelIterations
    isCalculating,  \* state.isCalculating
    \* the samples of the interpolations and of linearFit (their query point
    \* is x)
    xs, ys,
    \* calculateFunctionRange's running minimum and maximum
    minY, maxY,
    \* the state of the pages: state.error; state.result or state.fitResult;
    \* state.editingPoint (the points of a page, state.interpolationPoints or
    \* state.dataPoints, are `points`); state.rombergTable and
    \* state.analyticalResult of the quadrature page
    stateError, stateResult, editingPoint, rombergTable, analyticalResult,
    \* the row at which the point that startEdit read is now (0: none, or
    \* removed since)
    selected

trapVars == <<n, h, T_prev, T_curr, iter, cbLog>>
romVars  == <<R, tableData, rowData, i, j>>
odeVars  == <<x, y, points>>
viewVars == <<iterations, isCalculating>>
sampleVars == <<xs, ys>>
rangeVars == <<minY, maxY>>
pageVars == <<stateError, stateResult, editingPoint, rombergTable, analyticalResult,
              selected>>
callerVars == <<prev, passed>>
vars == <<fn, pc, f, a, b, tol, maxIter, hasCallback, Nmax, x0, y0, xn, A,
          result, thrown, console, cbLog, fCalls, prev, passed, n, h, T_prev, T_curr, iter,
          R, tableData, rowData, i, j, x, y, points, c, x_old,
          iterations, isCalculating, xs, ys, minY, maxY,
          stateError, stateResult, editingPoint, rombergTable, analyticalResult,
          selected>>

\* What each function leaves alone on every path.
TrapFrame == <<fn, f, a, b, tol, maxIter, hasCallback, Nmax, x0, y0, xn, A,
               console, callerVars, romVars, odeVars, c, x_old, viewVars, sampleVars, rangeVars, pageVars>>
RomFrame  == <<fn, f, a, b, tol, maxIter, hasCallback, Nmax, x0, y0, xn, A,
               console, callerVars, trapVars, odeVars, c, x_old, viewVars, sampleVars, rangeVars, pageVars>>
OdeFrame  == <<fn, f, a, b, tol, maxIter, hasCallback, Nmax, x0, y0, xn, A,
               thrown, console, callerVars, trapVars, romVars, c, x_old, viewVars,
               sampleVars, rangeVars, pageVars, fCalls>>
BisectionFrame == <<fn, f, tol, maxIter, hasCallback, Nmax, x0, y0, xn, A,
                    thrown, callerVars, trapVars, R, tableData, rowData, j,
                    odeVars, x_old, viewVars, sampleVars, rangeVars, pageVars, fCalls>>
LinFrame == <<fn, f, a, b, tol, maxIter, hasCallback, Nmax, y0, xn, A,
              thrown, callerVars, cbLog, h, T_prev, T_curr, romVars, y, points, c,
              sampleVars, rangeVars, pageVars, fCalls>>
NewtonFrame == <<fn, f, a, b, tol, maxIter, hasCallback, Nmax, x0, y0, xn, A,
                 thrown, callerVars, trapVars, R, tableData, rowData, j,
                 y, points, c, x_old, viewVars, sampleVars, rangeVars, pageVars, fCalls>>

----------------------------------------------------------------------------
(* Exact rational arithmetic.                                              *)

RECURSIVE Gcd(_, _)
Gcd(u, v) == IF v = 0 THEN u ELSE Gcd(v, u % v)

IAbs(u) == IF u < 0 THEN -u ELSE u

\* num/den in lowest terms with a positive denominator (den # 0).
Norm(num, den) ==
    LET g == Gcd(IAbs(num), IAbs(den))
        s == IF den < 0 THEN -1 ELSE 1
    IN  <<s * (num \div g), s * (den \div g)>>

Q(num, den) == Norm(num, den)
I(k) == <<k, 1>>

RAdd(u, v) ==
    LET g == Gcd(u[2], v[2])
    IN  Norm(u[1] * (v[2] \div g) + v[1] * (u[2] \div g), (u[2] \div g) * v[2])
RNeg(u) == <<-u[1], u[2]>>
RSub(u, v) == RAdd(u, RNeg(v))
RMul(u, v) ==
    LET p == Norm(u[1], v[2])
        q == Norm(v[1], u[2])
    IN  <<p[1] * q[1], p[2] * q[2]>>
\* v # 0
RDiv(u, v) == RMul(u, Norm(v[2], v[1]))
RAbs(u) == <<IAbs(u[1]), u[2]>>
RLt(u, v) == RSub(u, v)[1] < 0
RLe(u, v) == RSub(u, v)[1] <= 0
RMax(u, v) == IF RLt(u, v) THEN v ELSE u

RECURSIVE Pow(_, _)
Pow(base, e) == IF e = 0 THEN 1 ELSE base * Pow(base, e - 1)

RECURSIVE RPow(_, _)
RPow(u, e) == IF e = 0 THEN I(1) ELSE RMul(u, RPow(u, e - 1))

Last(s) == s[Len(s)]

\* Floating point: an operation rounds its exact result to the nearest number
\* with Precision significant bits, ties to the even one (IEEE 754 doubles keep
\* 53 bits; the exponent is left unbounded).
Precision == 4

\* The number of halvings that bring num/den below 2^Precision, and the number
\* of doublings that bring it up to 2^(Precision - 1) (num >= 0, den > 0).
RECURSIVE Halvings(_, _)
Halvings(num, den) ==
    IF num >= Pow(2, Precision) * den THEN 1 + Halvings(num, 2 * den) ELSE 0
RECURSIVE Doublings(_, _)
Doublings(num, den) ==
    IF num < Pow(2, Precision - 1) * den THEN 1 + Doublings(2 * num, den) ELSE 0

\* u > 0 rounded to Precision significant bits: scaled into
\* [2^(Precision - 1), 2^Precision), rounded to an integer, scaled back.
FRoundPos(u) ==
    LET down  == Halvings(u[1], u[2])
        up    == Doublings(u[1], u[2])
        num   == u[1] * Pow(2, up)
        den   == u[2] * Pow(2, down)
        floor == num \div den
        twice == 2 * (num - floor * den)
        int   == IF twice < den \/ (twice = den /\ floor % 2 = 0)
                 THEN floor
                 ELSE floor + 1
    IN  Norm(int * Pow(2, down), Pow(2, up))

FRound(u) ==
    IF u[1] = 0 THEN u
    ELSE IF u[1] < 0 THEN RNeg(FRoundPos(RNeg(u)))
    ELSE FRoundPos(u)

FAdd(u, v) == FRound(RAdd(u, v))
FSub(u, v) == FRound(RSub(u, v))
FMul(u, v) == FRound(RMul(u, v))
\* v # 0
FDiv(u, v) == FRound(RDiv(u, v))

----------------------------------------------------------------------------
(* Bounds of the model and the values the arguments are drawn from.        *)

MaxIterBound == 3
MaxNmax == 3
\* The most points a trajectory is followed to: a call with h <= 0 and
\* xn > x0 never leaves its loop.
MaxPoints == 6

NoValue == <<"none">>
NoError == [kind |-> "none"]
\* return null
Null == <<"null">>
NoPrev == [fn |-> "none", result |-> NoValue, console |-> "none",
           thrown |-> NoError, cbLog |-> <<>>, tableData |-> <<>>,
           points |-> <<>>]

\* The caller has made no call before this one, of which it holds the
\* arguments.
FirstCall ==
    prev = NoPrev /\ passed = [a |-> a, b |-> b, x0 |-> x0, A |-> A]

\* The locals before a call has run.
LocalsUnset ==
    /\ n = 0 /\ T_prev = I(0) /\ T_curr = I(0) /\ iter = 0
    /\ R = <<>> /\ tableData = <<>> /\ rowData = <<>> /\ i = 0 /\ j = 0
    /\ x = I(0) /\ y = I(0) /\ points = <<>>
    /\ c = I(0) /\ x_old = <<>>

\* No samples are passed.
NoSamples == xs = <<>> /\ ys = <<>>

\* No page is open and calculateFunctionRange has not run.
NoEdit == [index |-> -1, x |-> I(0), y |-> I(0)]
NoPage ==
    /\ minY = NoValue /\ maxY = NoValue
    /\ stateError = Null /\ stateResult = Null /\ editingPoint = NoEdit
    /\ rombergTable = <<>> /\ analyticalResult = Null
    /\ selected = 0

\* Nothing returned, thrown, logged or reported yet.
NothingOut ==
    /\ pc = "call" /\ result = NoValue /\ thrown = NoError
    /\ console = "none" /\ cbLog = <<>> /\ fCalls = 0
    /\ iterations = <<>> /\ isCalculating = FALSE

\* The integrands: opaque callables (number) => number of the callers.
FNames == {"one", "lin", "sq", "cube", "quart", "step"}

\* f(x) for the callable named g.
Feval(g, u) ==
    CASE g = "one"   -> I(1)
      [] g = "lin"   -> u
      [] g = "sq"    -> RPow(u, 2)
      [] g = "cube"  -> RPow(u, 3)
      [] g = "quart" -> RPow(u, 4)
      [] g = "step"  -> IF RLt(u, Q(1, 3)) THEN I(0) ELSE I(1)
      [] g = "sq4"   -> RSub(RPow(u, 2), I(4))
      [] g = "sq2"   -> RSub(RPow(u, 2), I(2))
      [] g = "sq2x2" -> RAdd(RSub(RPow(u, 2), RMul(I(2), u)), I(2))

\* [a, b] with a < b, and the two ways of a >= b.
Intervals == {<<I(0), I(1)>>, <<I(0), I(2)>>, <<I(-1), I(1)>>,
              <<I(1), I(1)>>, <<I(2), I(0)>>}

Tols == {Q(1, 2), Q(1, 16), Q(1, 128), Q(1, 1024), I(0), I(-1)}

----------------------------------------------------------------------------
(* adaptiveCompositeTrapezoid                                              *)

\* The number f returns at u.
FevalRounded(g, u) == FRound(Feval(g, u))

\* The values sumOdd takes: 0, then one more for every node a + i*h,
\* i = 1, 3, ..., n - 1, added in that order.
RECURSIVE SumOdd(_, _, _, _, _)
SumOdd(g, lo, step, cnt, sums) ==
    LET k == 2 * Len(sums) - 1
    IN  IF k >= cnt THEN sums
        ELSE SumOdd(g, lo, step, cnt,
                    Append(sums, FAdd(Last(sums),
                                      FevalRounded(g, FAdd(lo, FMul(I(k), step))))))

\* (h / 2) * (f(a) + f(b)), h = b - a.
TrapSingle(g, lo, hi) ==
    FMul(FDiv(FSub(hi, lo), I(2)), FAdd(FevalRounded(g, lo), FevalRounded(g, hi)))

\* The estimate of twice the panels without its halving of T_prev.
TrapRefine_NoHalving(Tp, step, sumOdd) == FAdd(Tp, FMul(step, sumOdd))

\* T_curr = T_prev / 2 + h * sumOdd.
TrapRefine(Tp, step, sumOdd) == FAdd(FDiv(Tp, I(2)), FMul(step, sumOdd))

\* The stopping test with <= for <.
TrapConverged_Le(error, t) == RLe(error, t)

\* The stopping test of the loop: error < tol.
TrapConverged(error, t) == RLt(error, t)

\* The record with the panel count reported as the iteration count.
CbRecord_IterAsN(cnt, value, error, iterCount) ==
    [n |-> cnt, value |-> value, error |-> error, iterCount |-> cnt]

\* The record handed to the callback.
CbRecord(cnt, value, error, iterCount) ==
    [n |-> cnt, value |-> value, error |-> error, iterCount |-> iterCount]

InitTrap ==
    /\ fn = "adaptiveCompositeTrapezoid"
    /\ f \in FNames
    /\ \E iv \in Intervals : a = iv[1] /\ b = iv[2]
    /\ tol \in Tols
    /\ maxIter \in 0..MaxIterBound
    /\ hasCallback \in BOOLEAN
    /\ Nmax = I(0) /\ x0 = I(0) /\ y0 = I(0) /\ xn = I(0) /\ A = <<>>
    /\ h = I(0)
    /\ NothingOut /\ LocalsUnset /\ NoSamples /\ NoPage /\ FirstCall

\* Only a > b refused.
BadInterval_Strict(lo, hi) == RLt(hi, lo)

\* a >= b
BadInterval(lo, hi) == RLe(hi, lo)

\* The counter as an earlier call left it.
StartIter_Kept == iter

\* let iter = 0
StartIter == 0

\* Entry: the argument checks, the single-panel estimate, the first callback.
TrapCall ==
    /\ fn = "adaptiveCompositeTrapezoid" /\ pc = "call"
    /\ IF BadInterval(a, b)
       THEN /\ thrown' = [kind |-> "InvalidInput", what |-> "a < b"]
            /\ pc' = "thrown"
            /\ UNCHANGED <<trapVars, fCalls>>
       ELSE IF RLe(tol, I(0))
       THEN /\ thrown' = [kind |-> "InvalidInput", what |-> "tol > 0"]
            /\ pc' = "thrown"
            /\ UNCHANGED <<trapVars, fCalls>>
       ELSE /\ n' = 1
            /\ fCalls' = 2
            /\ h' = FSub(b, a)
            /\ T_prev' = TrapSingle(f, a, b)
            /\ T_curr' = T_prev'
            /\ iter' = StartIter
            /\ cbLog' = IF hasCallback
                        THEN <<CbRecord(1, T_prev',
                                        FMul(FSub(b, a), FRound(Q(1, 10))), 0)>>
                        ELSE cbLog
            /\ pc' = "loop"
            /\ UNCHANGED thrown
    /\ UNCHANGED <<result, TrapFrame>>

\* One pass of the while loop.
TrapIterate ==
    /\ fn = "adaptiveCompositeTrapezoid" /\ pc = "loop"
    /\ iter < maxIter
    /\ iter' = iter + 1
    /\ n' = n * 2
    /\ h' = FDiv(FSub(b, a), I(n'))
    /\ fCalls' = fCalls + n
    /\ LET sumOdd == Last(SumOdd(f, a, h', n', <<I(0)>>))
           curr   == TrapRefine(T_prev, h', sumOdd)
           error  == RAbs(FSub(curr, T_prev))
       IN  /\ T_curr' = curr
           /\ cbLog' = IF hasCallback
                       THEN Append(cbLog, CbRecord(n', curr, error, iter'))
                       ELSE cbLog
           /\ IF TrapConverged(error, tol)
              THEN /\ result' = curr
                   /\ pc' = "returned"
                   /\ UNCHANGED T_prev
              ELSE /\ T_prev' = curr
                   /\ UNCHANGED <<result, pc>>
    /\ UNCHANGED <<thrown, TrapFrame>>

\* The error computed for the message of the Error thrown after the loop.
TrapLastError == RAbs(FSub(T_curr, T_prev))

\* After the loop: the budget is spent.
TrapExhausted ==
    /\ fn = "adaptiveCompositeTrapezoid" /\ pc = "loop"
    /\ ~(iter < maxIter)
    /\ thrown' = [kind |-> "NotConverged", maxIter |-> maxIter, tol |-> tol,
                  lastError |-> TrapLastError]
    /\ pc' = "thrown"
    /\ UNCHANGED <<result, trapVars, fCalls, TrapFrame>>

NextTrap == TrapCall \/ TrapIterate \/ TrapExhausted

SpecTrap == InitTrap /\ [][NextTrap]_vars

----------------------------------------------------------------------------
(* rombergIntegrationWithTable                                             *)

\* Nmax as the caller gives it: a number, which need not be an integer.
NmaxValues == {I(k) : k \in 0..MaxNmax} \cup {Q(3, 2)}

IsInteger(q) == q[2] = 1

\* Array.from({length: Nmax + 1}, () => new Array(Nmax + 1).fill(0))
ZeroMatrix(N) == [r \in 0..N |-> [col \in 0..N |-> I(0)]]

\* The values sum takes: 0, then one more for every new node a + (2k - 1)*h,
\* k = 1..npoints, added in that order.
RECURSIVE SumNew(_, _, _, _, _)
SumNew(g, lo, step, npoints, sums) ==
    LET k == Len(sums)
    IN  IF k > npoints THEN sums
        ELSE SumNew(g, lo, step, npoints,
                    Append(sums, FAdd(Last(sums),
                                      FevalRounded(g, FAdd(lo, FMul(I(2 * k - 1), step))))))

\* R[0][0] = (h0 / 2) * (f(a) + f(b)), h0 = b - a.
RomSingle(g, lo, hi) ==
    FMul(FDiv(FSub(hi, lo), I(2)), FAdd(FevalRounded(g, lo), FevalRounded(g, hi)))

\* Column 0 of a row from the row above without the new nodes.
RomRefine_NoNewNodes(Rp, step, sum) == FMul(Q(1, 2), Rp)

\* R[i][0] = 0.5 * R[i - 1][0] + h * sum.
RomRefine(Rp, step, sum) == FAdd(FMul(Q(1, 2), Rp), FMul(step, sum))

\* The extrapolation with the factor 2^j - 1.
Richardson_FactorTwo(Rm, r, col) ==
    FAdd(Rm[r][col - 1],
         FDiv(FSub(Rm[r][col - 1], Rm[r - 1][col - 1]), I(Pow(2, col) - 1)))

\* R[i][j] = R[i][j-1] + (R[i][j-1] - R[i-1][j-1]) / (4^j - 1)
Richardson(Rm, r, col) ==
    FAdd(Rm[r][col - 1],
         FDiv(FSub(Rm[r][col - 1], Rm[r - 1][col - 1]), I(Pow(4, col) - 1)))

\* The check made against the entry to the left, not the one up-left.
RomConverged_Left(Rm, r, col, t) == RLt(RAbs(FSub(Rm[r][col], Rm[r][col - 1])), t)

\* The convergence check made right after R[r][c] is stored.
RomConverged(Rm, r, col, t) == RLt(RAbs(FSub(Rm[r][col], Rm[r - 1][col - 1])), t)

\* The row started empty.
RomRowStart_Empty(v) == <<>>

\* const rowData = [R[i][0]]
RomRowStart(v) == <<v>>

\* The last trapezoid estimate returned, not the last diagonal entry.
RomFinal_Column0(Rm, N) == Rm[N][0]

\* The value returned when no entry met tol: R[Nmax][Nmax].
RomFinal(Rm, N) == Rm[N][N]

InitRom ==
    /\ fn = "rombergIntegrationWithTable"
    /\ f \in FNames
    /\ \E iv \in Intervals : a = iv[1] /\ b = iv[2]
    /\ tol \in Tols
    /\ Nmax \in NmaxValues
    /\ maxIter = 0 /\ hasCallback = FALSE
    /\ x0 = I(0) /\ y0 = I(0) /\ xn = I(0) /\ A = <<>>
    /\ h = I(0)
    /\ NothingOut /\ LocalsUnset /\ NoSamples /\ NoPage /\ FirstCall

\* Entry: the argument checks, the zero-filled table, row 0.
RomCall ==
    /\ fn = "rombergIntegrationWithTable" /\ pc = "call"
    /\ IF BadInterval(a, b)
       THEN /\ thrown' = [kind |-> "InvalidInput", what |-> "a < b"]
            /\ pc' = "thrown"
            /\ UNCHANGED <<R, tableData, i, fCalls>>
       ELSE IF ~IsInteger(Nmax) \/ RLt(Nmax, I(1))
       THEN /\ thrown' = [kind |-> "InvalidInput", what |-> "Nmax >= 1"]
            /\ pc' = "thrown"
            /\ UNCHANGED <<R, tableData, i, fCalls>>
       ELSE IF RLe(tol, I(0))
       THEN /\ thrown' = [kind |-> "InvalidInput", what |-> "tol > 0"]
            /\ pc' = "thrown"
            /\ UNCHANGED <<R, tableData, i, fCalls>>
       ELSE LET R00 == RomSingle(f, a, b)
            IN  /\ R' = [ZeroMatrix(Nmax[1]) EXCEPT ![0][0] = R00]
                /\ tableData' = <<<<R00>>>>
                /\ fCalls' = 2
                /\ i' = 1
                /\ pc' = "row"
                /\ UNCHANGED thrown
    /\ UNCHANGED <<result, rowData, j, RomFrame>>

\* The head of one pass of the outer loop: column 0 of row i.
RomRow ==
    /\ fn = "rombergIntegrationWithTable" /\ pc = "row"
    /\ i <= Nmax[1]
    /\ LET hh     == FDiv(FSub(b, a), I(Pow(2, i)))
           npoints == Pow(2, i - 1)
           sum    == Last(SumNew(f, a, hh, npoints, <<I(0)>>))
           Ri0    == RomRefine(R[i - 1][0], hh, sum)
       IN  /\ R' = [R EXCEPT ![i][0] = Ri0]
           /\ rowData' = RomRowStart(Ri0)
           /\ fCalls' = fCalls + npoints
    /\ j' = 1
    /\ pc' = "col"
    /\ UNCHANGED <<result, thrown, tableData, i, RomFrame>>

\* One pass of the inner loop: R[i][j], then the convergence check.
RomExtrapolate ==
    /\ fn = "rombergIntegrationWithTable" /\ pc = "col"
    /\ j <= i
    /\ R' = [R EXCEPT ![i][j] = Richardson(R, i, j)]
    /\ rowData' = Append(rowData, R'[i][j])
    /\ IF RomConverged(R', i, j, tol)
       THEN /\ tableData' = Append(tableData, rowData')
            /\ result' = R'[i][j]
            /\ pc' = "returned"
            /\ UNCHANGED j
       ELSE /\ j' = j + 1
            /\ UNCHANGED <<tableData, result, pc>>
    /\ UNCHANGED <<thrown, i, fCalls, RomFrame>>

\* The inner loop is over: the row is complete.
RomRowEnd ==
    /\ fn = "rombergIntegrationWithTable" /\ pc = "col"
    /\ ~(j <= i)
    /\ tableData' = Append(tableData, rowData)
    /\ i' = i + 1
    /\ pc' = "row"
    /\ UNCHANGED <<result, thrown, R, rowData, j, fCalls, RomFrame>>

\* The outer loop is over: no entry met tol.
RomExhausted ==
    /\ fn = "rombergIntegrationWithTable" /\ pc = "row"
    /\ ~(i <= Nmax[1])
    /\ result' = RomFinal(R, Nmax[1])
    /\ pc' = "returned"
    /\ UNCHANGED <<thrown, romVars, fCalls, RomFrame>>

NextRom == RomCall \/ RomRow \/ RomExtrapolate \/ RomRowEnd \/ RomExhausted

SpecRom == InitRom /\ [][NextRom]_vars

\* Both quadrature functions.
InitQuad == InitTrap \/ InitRom

NextQuad == NextTrap \/ NextRom

SpecQuad == InitQuad /\ [][NextQuad]_vars

----------------------------------------------------------------------------
(* calculateFunctionRange                                                  *)

\* The functions that are plotted: negative everywhere, of either sign,
\* positive, nearly constant, zero, infinite at 0, NaN everywhere, throwing
\* everywhere.
RangeFNames == {"neg", "lin", "sq", "flat", "zero", "recip", "nan", "throws"}

\* What f(u) gives: a number, a value that is not finite, or an exception.
NaNValue == <<"NaN">>
Throws == <<"throws">>
Fplot(g, u) ==
    CASE g = "neg"    -> RSub(I(-1), RPow(u, 2))
      [] g = "lin"    -> u
      [] g = "sq"     -> RPow(u, 2)
      [] g = "flat"   -> RDiv(u, I(20))
      [] g = "zero"   -> I(0)
      [] g = "recip"  -> IF u = I(0) THEN NaNValue ELSE RDiv(I(1), u)
      [] g = "nan"    -> NaNValue
      [] g = "throws" -> Throws

\* isFinite(y) of a value f returned.
IsFinite(v) == v # NaNValue

\* Number.MAX_VALUE, about 1.8e308, and Number.MIN_VALUE, 5e-324, the smallest
\* number above 0: both beyond the numbers kept as num/den. Every sample is
\* below the first; a sample is above the second exactly when it is above 0;
\* added to another number the second leaves it as it is and the first stays
\* as it is.
MAX_VALUE == <<"MAX_VALUE">>
MIN_VALUE == <<"MIN_VALUE">>


\* y < minY and y > maxY for a finite sample y.
BelowMin(v, mn) == mn = MAX_VALUE \/ RLt(v, mn)
AboveMax(v, mx) ==
    IF mx = MIN_VALUE THEN RLt(I(0), v) ELSE RLt(mx, v)

\* The sample points: const samples = 100, scaled down.
RangeSamples == 4

\* const paddingAmount = (b - a) * padding, padding = 0.1
PaddingAmount(lo, hi) == RMul(RSub(hi, lo), Q(1, 10))

\* x = a + (b - a) * (i / samples)
SampleAt(lo, hi, k) == RAdd(lo, RMul(RSub(hi, lo), Q(k, RangeSamples)))

\* maxY - minY, and the two as they are padded. With no finite sample
\* minY = MAX_VALUE and maxY = MIN_VALUE: the range is negative, minY - 0.5 is
\* MAX_VALUE again and maxY + 0.5 is 0.5. With maxY still MIN_VALUE and minY
\* a number, maxY counts as 0.
AsNumber(v) == IF v = MIN_VALUE THEN I(0) ELSE v
Padded(mn, mx) ==
    IF mn = MAX_VALUE THEN [minY |-> MAX_VALUE, maxY |-> Q(1, 2)]
    ELSE LET yRange == RSub(AsNumber(mx), mn)
         IN  IF RLt(yRange, Q(1, 10))
             THEN [minY |-> RSub(mn, Q(1, 2)), maxY |-> RAdd(AsNumber(mx), Q(1, 2))]
             ELSE [minY |-> RSub(mn, RMul(yRange, Q(1, 10))),
                   maxY |-> RAdd(AsNumber(mx), RMul(yRange, Q(1, 10)))]

RangeFrame == <<fn, f, a, b, tol, maxIter, hasCallback, Nmax, x0, y0, xn, A,
                thrown, console, callerVars, trapVars, R, tableData, rowData,
                j, odeVars, c, x_old, viewVars, sampleVars, pageVars, fCalls>>

InitRange ==
    /\ fn = "calculateFunctionRange"
    /\ f \in RangeFNames
    /\ \E iv \in Intervals : a = iv[1] /\ b = iv[2]
    /\ tol = I(0) /\ maxIter = 0 /\ hasCallback = FALSE /\ Nmax = I(0)
    /\ x0 = I(0) /\ y0 = I(0) /\ xn = I(0) /\ A = <<>>
    /\ h = I(0)
    /\ NothingOut /\ LocalsUnset /\ NoSamples /\ NoPage /\ FirstCall

\* Entry: minY and maxY.
RangeCall ==
    /\ fn = "calculateFunctionRange" /\ pc = "call"
    /\ minY' = MAX_VALUE
    /\ maxY' = MIN_VALUE
    /\ i' = 0
    /\ pc' = "loop"
    /\ UNCHANGED <<result, RangeFrame>>

\* One pass of the loop over the samples.
RangeSample ==
    /\ fn = "calculateFunctionRange" /\ pc = "loop"
    /\ i <= RangeSamples
    /\ LET v == Fplot(f, SampleAt(a, b, i))
       IN  IF v = Throws \/ ~IsFinite(v)
           THEN UNCHANGED <<minY, maxY>>
           ELSE /\ minY' = IF BelowMin(v, minY) THEN v ELSE minY
                /\ maxY' = IF AboveMax(v, maxY) THEN v ELSE maxY
    /\ i' = i + 1
    /\ UNCHANGED <<result, pc, RangeFrame>>

\* After the loop: the padding, and the object returned.
RangeReturn ==
    /\ fn = "calculateFunctionRange" /\ pc = "loop"
    /\ ~(i <= RangeSamples)
    /\ LET padded == Padded(minY, maxY)
       IN  /\ minY' = padded.minY
           /\ maxY' = padded.maxY
           /\ result' = [minX |-> RSub(a, PaddingAmount(a, b)),
                         maxX |-> RAdd(b, PaddingAmount(a, b)),
                         minY |-> padded.minY, maxY |-> padded.maxY]
    /\ pc' = "returned"
    /\ UNCHANGED <<i, RangeFrame>>

NextRange == RangeCall \/ RangeSample \/ RangeReturn

SpecRange == InitRange /\ [][NextRange]_vars

----------------------------------------------------------------------------
(* improvedEuler and rungeKutta4                                           *)

\* The right-hand sides: opaque callables (x, y) => number.
GNames == {"one", "x", "y", "x+y"}

\* f(x, y) for the callable named g.
Geval(g, px, py) ==
    CASE g = "one" -> I(1)
      [] g = "x"   -> px
      [] g = "y"   -> py
      [] g = "x+y" -> FAdd(px, py)

StepSizes == {Q(15, 32), I(1), Q(3, 2), I(0), I(-1)}

\* The new y of one pass of improvedEuler's loop.
ImprovedEulerStep(g, px, py, hh) ==
    LET y_predictor == FAdd(py, FMul(hh, Geval(g, px, py)))
        y_corrector == FAdd(py, FMul(hh, Geval(g, FAdd(px, hh), y_predictor)))
    IN  FDiv(FAdd(y_predictor, y_corrector), I(2))

\* The new y of one pass of rungeKutta4's loop.
RungeKutta4Step(g, px, py, hh) ==
    LET h2 == FDiv(hh, I(2))
        K1 == Geval(g, px, py)
        K2 == Geval(g, FAdd(px, h2), FAdd(py, FMul(h2, K1)))
        K3 == Geval(g, FAdd(px, h2), FAdd(py, FMul(h2, K2)))
        K4 == Geval(g, FAdd(px, hh), FAdd(py, FMul(hh, K3)))
    IN  FAdd(py, FMul(FDiv(hh, I(6)),
                      FAdd(FAdd(FAdd(K1, FMul(I(2), K2)), FMul(I(2), K3)), K4)))

OdeStepOf(method, g, px, py, hh) ==
    IF method = "improvedEuler" THEN ImprovedEulerStep(g, px, py, hh)
    ELSE RungeKutta4Step(g, px, py, hh)

OdeCalled == fn \in {"improvedEuler", "rungeKutta4"}

InitOde ==
    /\ fn \in {"improvedEuler", "rungeKutta4"}
    /\ f \in GNames
    /\ x0 \in {I(0), I(1)}
    /\ y0 \in {I(0), I(1)}
    /\ h \in StepSizes
    /\ xn \in {I(0), I(1), I(2)}
    /\ a = I(0) /\ b = I(0) /\ tol = I(0) /\ maxIter = 0 /\ hasCallback = FALSE
    /\ Nmax = I(0) /\ A = <<>>
    /\ NothingOut /\ LocalsUnset /\ NoSamples /\ NoPage /\ FirstCall

\* Entry: let x = x0; let y = y0; const points = [{x, y}]. Nothing is checked.
OdeCall ==
    /\ OdeCalled /\ pc = "call"
    /\ x' = x0
    /\ y' = y0
    /\ points' = <<[x |-> x0, y |-> y0]>>
    /\ pc' = "loop"
    /\ UNCHANGED <<result, OdeFrame>>

\* One pass of while (x < xn): y from the full step h, x advanced and clamped.
OdeStep ==
    /\ OdeCalled /\ pc = "loop"
    /\ RLt(x, xn)
    /\ Len(points) < MaxPoints
    /\ y' = OdeStepOf(fn, f, x, y, h)
    /\ x' = IF RLt(xn, FAdd(x, h)) THEN xn ELSE FAdd(x, h)
    /\ points' = Append(points, [x |-> x', y |-> y'])
    /\ UNCHANGED <<pc, result, OdeFrame>>

\* After the loop: return points.
OdeReturn ==
    /\ OdeCalled /\ pc = "loop"
    /\ ~RLt(x, xn)
    /\ result' = points
    /\ pc' = "returned"
    /\ UNCHANGED <<odeVars, OdeFrame>>

NextOde == OdeCall \/ OdeStep \/ OdeReturn

SpecOde == InitOde /\ [][NextOde]_vars

----------------------------------------------------------------------------
(* bisection and newtonMethod                                              *)

\* The functions whose roots are sought, and their derivatives.
RootFNames == {"lin", "sq4", "sq2", "cube", "sq2x2"}

\* f_prime(x) for the callable named g.
Fprime(g, u) ==
    CASE g = "lin"  -> I(1)
      [] g = "sq4"  -> RMul(I(2), u)
      [] g = "sq2"  -> RMul(I(2), u)
      [] g = "cube" -> RMul(I(3), RPow(u, 2))
      [] g = "sq2x2" -> RSub(RMul(I(2), u), I(2))

\* Math.abs(u) < 1e-12, that is |num| * 10^12 < den, without the product.
Below1e12(u) == IAbs(u[1]) < (((u[2] - 1) \div 1000000) \div 1000000) + 1

RootIntervals == {<<I(0), I(3)>>, <<I(3), I(5)>>, <<I(-1), I(1)>>,
                  <<I(0), I(2)>>, <<I(1), I(2)>>, <<I(3), I(0)>>,
                  <<Q(5, 4), Q(3, 2)>>}
RootTols == {Q(1, 2), Q(1, 16), Q(1, 100)}

\* The test with > for >=: an end point that is a root passes.
NoSignChange_Strict(g, lo, hi) ==
    RLt(I(0), FMul(FevalRounded(g, lo), FevalRounded(g, hi)))

\* f(a) * f(b) >= 0: no change of sign over [a, b].
NoSignChange(g, lo, hi) ==
    RLe(I(0), FMul(FevalRounded(g, lo), FevalRounded(g, hi)))

\* The left end point taken for the midpoint.
Midpoint_Left(lo, hi) == lo

\* c = (a + b) / 2
Midpoint(lo, hi) == FDiv(FAdd(lo, hi), I(2))

\* f(c) === 0 || (b - a) / 2 < tol
BisectionDone(g, lo, hi, mid, t) ==
    FevalRounded(g, mid) = I(0) \/ RLt(FDiv(FSub(hi, lo), I(2)), t)

ArgsBisection ==
    /\ fn = "bisection"
    /\ f \in RootFNames
    /\ \E iv \in RootIntervals : a = iv[1] /\ b = iv[2]
    /\ tol \in RootTols
    /\ maxIter \in 0..MaxIterBound
    /\ x0 = I(0)
    /\ y0 = I(0) /\ xn = I(0) /\ h = I(0) /\ hasCallback = FALSE
    /\ Nmax = I(0) /\ A = <<>>
    /\ NothingOut /\ LocalsUnset /\ NoSamples /\ NoPage

ArgsNewton ==
    /\ fn = "newtonMethod"
    /\ f \in RootFNames
    /\ x0 \in {I(0), I(1), I(2)}
    /\ tol \in RootTols
    /\ maxIter \in 0..MaxIterBound
    /\ a = I(0) /\ b = I(0)
    /\ y0 = I(0) /\ xn = I(0) /\ h = I(0) /\ hasCallback = FALSE
    /\ Nmax = I(0) /\ A = <<>>
    /\ NothingOut /\ LocalsUnset /\ NoSamples /\ NoPage

InitRoot == (ArgsBisection \/ ArgsNewton) /\ FirstCall

\* Entry of bisection: the sign test, then let c = a.
BisectionCall ==
    /\ fn = "bisection" /\ pc = "call"
    /\ IF NoSignChange(f, a, b)
       THEN /\ console' = "error"
            /\ result' = Null
            /\ pc' = "returned"
            /\ UNCHANGED <<c, i>>
       ELSE /\ c' = a
            /\ i' = 0
            /\ pc' = "loop"
            /\ UNCHANGED <<console, result>>
    /\ UNCHANGED <<a, b, BisectionFrame>>

\* One pass of bisection's loop.
BisectionIterate ==
    /\ fn = "bisection" /\ pc = "loop"
    /\ i < maxIter
    /\ c' = Midpoint(a, b)
    /\ IF BisectionDone(f, a, b, c', tol)
       THEN /\ result' = c'
            /\ pc' = "returned"
            /\ UNCHANGED <<a, b, i>>
       ELSE /\ IF RLt(FMul(FevalRounded(f, a), FevalRounded(f, c')), I(0))
               THEN b' = c' /\ a' = a
               ELSE a' = c' /\ b' = b
            /\ i' = i + 1
            /\ UNCHANGED <<result, pc>>
    /\ UNCHANGED <<console, BisectionFrame>>

\* After bisection's loop: console.warn, return c.
BisectionExhausted ==
    /\ fn = "bisection" /\ pc = "loop"
    /\ ~(i < maxIter)
    /\ console' = "warn"
    /\ result' = c
    /\ pc' = "returned"
    /\ UNCHANGED <<a, b, c, i, BisectionFrame>>

\* Entry of newtonMethod: let x = x0.
NewtonCall ==
    /\ fn = "newtonMethod" /\ pc = "call"
    /\ x' = x0
    /\ i' = 0
    /\ pc' = "loop"
    /\ UNCHANGED <<console, result, NewtonFrame>>

\* Math.abs(y_prime) < 1e-12
DerivativeTooSmall(y_prime) == Below1e12(y_prime)

\* The current iterate returned where null is.
DerivativeFailure_ReturnsX(px) == px

\* What newtonMethod returns when the derivative is too small at px: null.
DerivativeFailure(px) == Null

\* One pass of newtonMethod's loop.
NewtonIterate ==
    /\ fn = "newtonMethod" /\ pc = "loop"
    /\ i < maxIter
    /\ LET yy      == Feval(f, x)
           y_prime == Fprime(f, x)
       IN  IF DerivativeTooSmall(y_prime)
           THEN /\ console' = "error"
                /\ result' = DerivativeFailure(x)
                /\ pc' = "returned"
                /\ UNCHANGED <<x, i>>
           ELSE LET x_new == RSub(x, RDiv(yy, y_prime))
                IN  IF RLt(RAbs(RSub(x_new, x)), tol)
                    THEN /\ result' = x_new
                         /\ pc' = "returned"
                         /\ UNCHANGED <<x, i, console>>
                    ELSE /\ x' = x_new
                         /\ i' = i + 1
                         /\ UNCHANGED <<result, pc, console>>
    /\ UNCHANGED NewtonFrame

\* After newtonMethod's loop: console.warn, return x.
NewtonExhausted ==
    /\ fn = "newtonMethod" /\ pc = "loop"
    /\ ~(i < maxIter)
    /\ console' = "warn"
    /\ result' = x
    /\ pc' = "returned"
    /\ UNCHANGED <<x, i, NewtonFrame>>

NextRoot ==
    \/ BisectionCall \/ BisectionIterate \/ BisectionExhausted
    \/ NewtonCall \/ NewtonIterate \/ NewtonExhausted

SpecRoot == InitRoot /\ [][NextRoot]_vars

----------------------------------------------------------------------------
(* jacobi and gaussSeidel                                                  *)

Vec(p, q) == <<I(p), I(q)>>
Mat(p, q, r, s) == <<Vec(p, q), Vec(r, s)>>

\* Strictly diagonally dominant (the third barely so), not dominant, a zero
\* first pivot, a zero second pivot.
Matrices == {Mat(4, 1, 1, 3), Mat(2, -1, 1, 2), Mat(3, -2, -2, 3),
             Mat(1, 2, 3, 1), Mat(0, 1, 1, 1), Mat(2, 1, 1, 0)}
RightSides == {Vec(1, 2), Vec(0, 0)}
FirstGuesses == {Vec(0, 0), Vec(1, 1)}
LinTols == {Q(1, 2), Q(1, 16), Q(1, 100)}

\* sigma of jacobi's row r: the sum of A[r][k] * x_old[k] over k # r.
RECURSIVE JacobiSigma(_, _, _, _)
JacobiSigma(M, old, r, k) ==
    IF k > Len(M) THEN I(0)
    ELSE RAdd(IF k # r THEN RMul(M[r][k], old[k]) ELSE I(0),
              JacobiSigma(M, old, r, k + 1))

\* sigma of gaussSeidel's row r: A[r][k] * x[k] for k < r, A[r][k] * x_old[k] for
\* k > r.
RECURSIVE GaussSeidelSigma(_, _, _, _, _)
GaussSeidelSigma(M, cur, old, r, k) ==
    IF k > Len(M) THEN I(0)
    ELSE RAdd(IF k < r THEN RMul(M[r][k], cur[k])
              ELSE IF k > r THEN RMul(M[r][k], old[k]) ELSE I(0),
              GaussSeidelSigma(M, cur, old, r, k + 1))

\* jacobi reading x where it reads x_old.
Sigma_InPlace(method, M, cur, old, r) == GaussSeidelSigma(M, cur, old, r, 1)

\* sigma of row r in a pass that began with old and has brought x to cur.
Sigma(method, M, cur, old, r) ==
    IF method = "jacobi" THEN JacobiSigma(M, old, r, 1)
    ELSE GaussSeidelSigma(M, cur, old, r, 1)

\* Math.abs(A[i][i]) < 1e-12 at row r.
SingularPivot(M, r) == Below1e12(M[r][r])

\* The partly updated x returned where null is.
PivotFailure_ReturnsX(cur) == cur

\* What both solvers return at a diagonal entry below 1e-12: null.
PivotFailure(cur) == Null

\* The rows r, r + 1, ... of one pass: x as the pass leaves it, and whether it
\* stopped at a diagonal entry below 1e-12.
RECURSIVE Sweep(_, _, _, _, _, _)
Sweep(method, M, rhs, cur, old, r) ==
    IF r > Len(M) THEN [x |-> cur, singular |-> FALSE]
    ELSE IF SingularPivot(M, r) THEN [x |-> cur, singular |-> TRUE]
    ELSE Sweep(method, M, rhs,
               [cur EXCEPT ![r] = RDiv(RSub(rhs[r], Sigma(method, M, cur, old, r)),
                                       M[r][r])],
               old, r + 1)

\* The largest |x[k] - x_old[k]|, k = from..Len(x).
RECURSIVE MaxDiff(_, _, _)
MaxDiff(cur, old, k) ==
    IF k > Len(cur) THEN I(0)
    ELSE RMax(RAbs(RSub(cur[k], old[k])), MaxDiff(cur, old, k + 1))

\* The stopping test passed by every pass.
LinConverged_NoTest(error, t) == TRUE

\* The stopping test of both solvers: error < tol.
LinConverged(error, t) == RLt(error, t)

\* The whole call as a function of its arguments: what it returns and how,
\* with `left` passes of the outer loop still allowed.
RECURSIVE Solve(_, _, _, _, _, _)
Solve(method, M, rhs, cur, t, left) ==
    IF left = 0 THEN [x |-> cur, how |-> "warn"]
    ELSE LET pass == Sweep(method, M, rhs, cur, cur, 1)
         IN  IF pass.singular THEN [x |-> PivotFailure(pass.x), how |-> "error"]
             ELSE IF LinConverged(MaxDiff(pass.x, cur, 1), t)
             THEN [x |-> pass.x, how |-> "none"]
             ELSE Solve(method, M, rhs, pass.x, t, left - 1)

LinCalled == fn \in {"jacobi", "gaussSeidel"}

ArgsLin ==
    /\ fn \in {"jacobi", "gaussSeidel"}
    /\ A \in Matrices
    /\ b \in RightSides
    /\ x0 \in FirstGuesses
    /\ tol \in LinTols
    /\ maxIter \in 0..MaxIterBound
    /\ f = "none" /\ a = I(0)
    /\ y0 = I(0) /\ xn = I(0) /\ h = I(0) /\ hasCallback = FALSE
    /\ Nmax = I(0)
    /\ NothingOut /\ LocalsUnset /\ NoSamples /\ NoPage

InitLin == ArgsLin /\ FirstCall

\* The array x0 itself, where x refers to it and not to an array of its own.
RefX0 == <<"x0">>

\* let x = x0: the same array under a second name.
Spread_Same(v) == RefX0

\* [...x0]: a new array with the elements of v.
Spread(v) == v

\* The elements of the array x refers to.
XArray == IF x = RefX0 THEN x0 ELSE x

\* Entry: const n = A.length; let x = [...x0].
LinCall ==
    /\ LinCalled /\ pc = "call"
    /\ n' = Len(A)
    /\ x' = Spread(x0)
    /\ iter' = 0
    /\ pc' = "loop"
    /\ UNCHANGED <<x0, x_old, console, result, viewVars, LinFrame>>

\* One pass of the outer loop.
LinIterate ==
    /\ LinCalled /\ pc = "loop"
    /\ iter < maxIter
    /\ x_old' = XArray
    /\ LET pass == Sweep(fn, A, b, XArray, XArray, 1)
       IN  /\ IF x = RefX0
              THEN x0' = pass.x /\ UNCHANGED x
              ELSE x' = pass.x /\ UNCHANGED x0
           /\ IF pass.singular
              THEN /\ console' = "error"
                   /\ result' = PivotFailure(pass.x)
                   /\ pc' = "returned"
                   /\ UNCHANGED iter
              ELSE IF LinConverged(MaxDiff(pass.x, XArray, 1), tol)
              THEN /\ result' = x'
                   /\ pc' = "returned"
                   /\ UNCHANGED <<iter, console>>
              ELSE /\ iter' = iter + 1
                   /\ UNCHANGED <<result, pc, console>>
    /\ UNCHANGED <<n, viewVars, LinFrame>>

\* After the loop: console.warn, return x.
LinExhausted ==
    /\ LinCalled /\ pc = "loop"
    /\ ~(iter < maxIter)
    /\ console' = "warn"
    /\ result' = x
    /\ pc' = "returned"
    /\ UNCHANGED <<n, x0, x, x_old, iter, viewVars, LinFrame>>

NextLin == LinCall \/ LinIterate \/ LinExhausted

SpecLin == InitLin /\ [][NextLin]_vars

----------------------------------------------------------------------------
(* calculateJacobi and calculateGaussSeidel of the linear-system view: the *)
(* same iterations, written out again in the view to record each one.      *)

\* The array x of the running handler, where a record holds it and not a copy.
RefX == <<"x">>

\* The array itself stored in the record.
Copy_Alias(v) == RefX

\* [...x]: a new array with the elements of v.
Copy(v) == v

\* The vector a reader finds in a record of the history.
RecordVector(rec) == IF rec.x = RefX THEN x ELSE rec.x

\* The solver whose iteration the handler repeats.
ViewMethod == IF fn = "calculateJacobi" THEN "jacobi" ELSE "gaussSeidel"

ViewCalled == fn \in {"calculateJacobi", "calculateGaussSeidel"}

\* state.A: the matrices of the solvers and one whose second row is short.
ViewMatrices == Matrices \cup {<<Vec(2, 1), <<I(1)>>>>}

\* !state.A[i] || state.A[i].length !== state.n for some i < state.n
BadRow(M, dim) == \E r \in 1..dim : r > Len(M) \/ Len(M[r]) # dim

\* The view's state when the button is pressed: no result yet.
InitView ==
    /\ fn \in {"calculateJacobi", "calculateGaussSeidel"}
    /\ A \in ViewMatrices
    /\ n \in {2, 3}
    /\ b \in RightSides
    /\ x0 \in FirstGuesses
    /\ tol \in LinTols
    /\ maxIter \in 0..MaxIterBound
    /\ result = Null
    /\ iterations = <<>> /\ isCalculating = FALSE
    /\ pc = "call" /\ thrown = NoError /\ console = "none" /\ cbLog = <<>>
    /\ fCalls = 0
    /\ f = "none" /\ a = I(0)
    /\ y0 = I(0) /\ xn = I(0) /\ h = I(0) /\ hasCallback = FALSE
    /\ Nmax = I(0)
    /\ T_prev = I(0) /\ T_curr = I(0) /\ iter = 0
    /\ R = <<>> /\ tableData = <<>> /\ rowData = <<>> /\ i = 0 /\ j = 0
    /\ x = I(0) /\ y = I(0) /\ points = <<>>
    /\ c = I(0) /\ x_old = <<>>
    /\ NoSamples /\ NoPage
    /\ FirstCall

\* Entry of the handler: the flag, the emptied history, the two checks of the
\* matrix (alert and return, the finally clause clearing the flag), x = [...x0].
ViewCall ==
    /\ ViewCalled /\ pc = "call"
    /\ iterations' = <<>>
    /\ IF Len(A) # n \/ BadRow(A, n)
       THEN /\ console' = "alert"
            /\ isCalculating' = FALSE
            /\ pc' = "returned"
            /\ UNCHANGED <<x, iter>>
       ELSE /\ isCalculating' = TRUE
            /\ x' = x0
            /\ iter' = 0
            /\ pc' = "loop"
            /\ UNCHANGED console
    /\ UNCHANGED <<n, x0, x_old, result, LinFrame>>

\* One pass of the handler's loop: the sweep, the record, the test.
ViewIterate ==
    /\ ViewCalled /\ pc = "loop"
    /\ iter < maxIter
    /\ x_old' = x
    /\ LET pass  == Sweep(ViewMethod, A, b, x, x, 1)
           error == MaxDiff(pass.x, x, 1)
       IN  /\ x' = pass.x
           /\ IF pass.singular
              THEN /\ console' = "alert"
                   /\ isCalculating' = FALSE
                   /\ pc' = "returned"
                   /\ UNCHANGED <<iter, iterations, result>>
              ELSE /\ iterations' =
                        Append(iterations, [iteration |-> iter + 1,
                                            x |-> Copy(pass.x),
                                            error |-> error])
                   /\ IF LinConverged(error, tol)
                      THEN /\ result' = pass.x
                           /\ isCalculating' = FALSE
                           /\ pc' = "returned"
                           /\ UNCHANGED <<iter, console>>
                      ELSE /\ iter' = iter + 1
                           /\ UNCHANGED <<result, pc, console, isCalculating>>
    /\ UNCHANGED <<n, x0, LinFrame>>

\* After the loop ran out: state.jacobiResult = x, the flag cleared.
ViewFinish ==
    /\ ViewCalled /\ pc = "loop"
    /\ ~(iter < maxIter)
    /\ result' = x
    /\ isCalculating' = FALSE
    /\ pc' = "returned"
    /\ UNCHANGED <<n, x0, x, x_old, iter, iterations, console, LinFrame>>

NextView == ViewCall \/ ViewIterate \/ ViewFinish

SpecView == InitView /\ [][NextView]_vars

----------------------------------------------------------------------------
(* calculateBisection, the handler of the root-finding page                *)

\* What the handler leaves alone; a, b and c are its locals, `result` is
\* state.bisectionResult, tol and maxIter state.bisectionTol and
\* state.bisectionMaxIter, passed.a and passed.b state.bisectionA and
\* state.bisectionB.
BisectionViewFrame == <<fn, f, tol, maxIter, hasCallback, Nmax, x0, y0, xn, A,
                        thrown, callerVars, trapVars, R, tableData, rowData, j,
                        odeVars, x_old, sampleVars, rangeVars, pageVars, fCalls>>

BisectionViewCalled == fn = "calculateBisection"

\* !state.bisectionFunction.trim()
NoExpression(g) == g = ""

\* Math.abs(fc) < state.bisectionTol || (b - a) / 2 < state.bisectionTol
BisectionViewDone(fc, lo, hi, t) ==
    RLt(RAbs(fc), t) \/ RLt(FDiv(FSub(hi, lo), I(2)), t)

\* The page when the button is pressed: no result yet.
InitBisectionView ==
    /\ fn = "calculateBisection"
    /\ f \in RootFNames \cup {""}
    /\ \E iv \in RootIntervals : a = iv[1] /\ b = iv[2]
    /\ tol \in RootTols
    /\ maxIter \in 0..MaxIterBound
    /\ x0 = I(0)
    /\ y0 = I(0) /\ xn = I(0) /\ h = I(0) /\ hasCallback = FALSE
    /\ Nmax = I(0) /\ A = <<>>
    /\ pc = "call" /\ result = Null /\ thrown = NoError
    /\ console = "none" /\ cbLog = <<>> /\ fCalls = 0
    /\ iterations = <<>> /\ isCalculating = FALSE
    /\ LocalsUnset /\ NoSamples /\ NoPage /\ FirstCall

\* Entry of the handler: the empty expression (alert, return); the flag, the
\* emptied history; the sign test (alert, return, the finally clause
\* clearing the flag); let c = a.
BisectionViewCall ==
    /\ BisectionViewCalled /\ pc = "call"
    /\ IF NoExpression(f)
       THEN /\ console' = "alert"
            /\ pc' = "returned"
            /\ UNCHANGED <<c, i, iterations, isCalculating>>
       ELSE /\ iterations' = <<>>
            /\ IF NoSignChange(f, a, b)
               THEN /\ console' = "alert"
                    /\ isCalculating' = FALSE
                    /\ pc' = "returned"
                    /\ UNCHANGED <<c, i>>
               ELSE /\ isCalculating' = TRUE
                    /\ c' = a
                    /\ i' = 0
                    /\ pc' = "loop"
                    /\ UNCHANGED console
    /\ UNCHANGED <<a, b, result, BisectionViewFrame>>

\* One pass of the handler's loop: the midpoint, the record, the test; on
\* break state.bisectionResult = c and the flag cleared.
BisectionViewIterate ==
    /\ BisectionViewCalled /\ pc = "loop"
    /\ i < maxIter
    /\ c' = Midpoint(a, b)
    /\ LET fc == FevalRounded(f, c')
       IN  /\ iterations' = Append(iterations, [iteration |-> i + 1, a |-> a,
                                                b |-> b, c |-> c', fc |-> fc])
           /\ IF BisectionViewDone(fc, a, b, tol)
              THEN /\ result' = c'
                   /\ isCalculating' = FALSE
                   /\ pc' = "returned"
                   /\ UNCHANGED <<a, b, i>>
              ELSE /\ IF RLt(FMul(FevalRounded(f, a), fc), I(0))
                      THEN b' = c' /\ a' = a
                      ELSE a' = c' /\ b' = b
                   /\ i' = i + 1
                   /\ UNCHANGED <<result, pc, isCalculating>>
    /\ UNCHANGED <<console, BisectionViewFrame>>

\* After the loop ran out: state.bisectionResult = c, the flag cleared.
BisectionViewFinish ==
    /\ BisectionViewCalled /\ pc = "loop"
    /\ ~(i < maxIter)
    /\ result' = c
    /\ isCalculating' = FALSE
    /\ pc' = "returned"
    /\ UNCHANGED <<a, b, c, i, iterations, console, BisectionViewFrame>>

NextBisectionView ==
    BisectionViewCall \/ BisectionViewIterate \/ BisectionViewFinish

SpecBisectionView == InitBisectionView /\ [][NextBisectionView]_vars

----------------------------------------------------------------------------
(* calculateIntegral, the handler of the quadrature page                   *)

\* The page's parameters are the arguments of the call it makes: f is the
\* function selected, a and b state.lowerBound and state.upperBound, tol
\* 10^-state.toleranceExponent, maxIter state.maxIterations, Nmax
\* state.rombergMaxLevel, fn the function state.selectedMethod selects.
PageFunctions == {"sq", "cube"}
PageBounds == {I(0), I(1), I(2)}
PageTolerances == {Q(1, 10), Q(1, 1000)}
PageMaxIterations == 1..MaxIterBound
PageLevels == {I(2), I(MaxNmax)}
PageMethods == {"adaptiveCompositeTrapezoid", "rombergIntegrationWithTable"}

\* currentFunction.value.analyticalResult(a, b)
AnalyticalResult(g, lo, hi) ==
    CASE g = "sq"   -> FRound(RDiv(RSub(RPow(hi, 3), RPow(lo, 3)), I(3)))
      [] g = "cube" -> FRound(RDiv(RSub(RPow(hi, 4), RPow(lo, 4)), I(4)))

\* iterData: what iterationCallback pushed for the records it was handed.
IterData(log, t) ==
    [k \in 1..Len(log) |->
        [n |-> log[k].n, value |-> log[k].value, error |-> log[k].error,
         withinTolerance |-> RLe(log[k].error, t),
         iterCount |-> log[k].iterCount]]

\* The message of the branch for lowerBound >= upperBound.
BoundsMessage == <<"lowerBound < upperBound">>

\* (error as Error).message
Message(e) == <<e.kind>>

\* The page before onMounted has run.
InitPage ==
    /\ fn \in PageMethods
    /\ f \in PageFunctions
    /\ a \in PageBounds /\ b \in PageBounds
    /\ tol \in PageTolerances
    /\ maxIter \in PageMaxIterations
    /\ Nmax \in PageLevels
    /\ hasCallback = FALSE
    /\ x0 = I(0) /\ y0 = I(0) /\ xn = I(0) /\ A = <<>>
    /\ h = I(0)
    /\ pc = "mounting" /\ result = NoValue /\ thrown = NoError
    /\ console = "none" /\ cbLog = <<>> /\ fCalls = 0
    /\ iterations = <<>> /\ isCalculating = FALSE
    /\ LocalsUnset /\ NoSamples /\ NoPage /\ FirstCall

\* calculateIntegral up to the call of the quadrature function: the check of
\* the bounds (the message, the result and the lists cleared, return);
\* otherwise the error cleared, the flag, the lists cleared, and the call
\* entered with the page's parameters.
IntegralStart(method, g, lo, hi, t, most, N) ==
    /\ fn' = method /\ f' = g /\ a' = lo /\ b' = hi
    /\ tol' = t /\ maxIter' = most /\ Nmax' = N
    /\ hasCallback' = (method = "adaptiveCompositeTrapezoid")
    /\ iterations' = <<>>
    /\ rombergTable' = <<>>
    /\ IF RLe(hi, lo)
       THEN /\ stateError' = BoundsMessage
            /\ stateResult' = Null
            /\ pc' = "idle"
            /\ UNCHANGED isCalculating
       ELSE /\ stateError' = Null
            /\ isCalculating' = TRUE
            /\ pc' = "call"
            /\ UNCHANGED stateResult
    /\ result' = NoValue /\ thrown' = NoError /\ cbLog' = <<>> /\ fCalls' = 0
    /\ n' = 0 /\ h' = I(0) /\ T_prev' = I(0) /\ T_curr' = I(0) /\ iter' = 0
    /\ R' = <<>> /\ tableData' = <<>> /\ rowData' = <<>> /\ i' = 0 /\ j' = 0
    /\ passed' = [a |-> lo, b |-> hi, x0 |-> x0, A |-> A]
    /\ UNCHANGED <<x0, y0, xn, A, console, prev, odeVars, c, x_old,
                   sampleVars, rangeVars, editingPoint, analyticalResult, selected>>

\* onMounted: calculateIntegral with the parameters as they are.
PageMounted ==
    /\ pc = "mounting"
    /\ IntegralStart(fn, f, a, b, tol, maxIter, Nmax)

\* One parameter is changed and the watcher calls calculateIntegral.
PageChange ==
    /\ pc = "idle"
    /\ \/ \E method \in PageMethods \ {fn} :
             IntegralStart(method, f, a, b, tol, maxIter, Nmax)
       \/ \E g \in PageFunctions \ {f} :
             IntegralStart(fn, g, a, b, tol, maxIter, Nmax)
       \/ \E lo \in PageBounds \ {a} :
             IntegralStart(fn, f, lo, b, tol, maxIter, Nmax)
       \/ \E hi \in PageBounds \ {b} :
             IntegralStart(fn, f, a, hi, tol, maxIter, Nmax)
       \/ \E t \in PageTolerances \ {tol} :
             IntegralStart(fn, f, a, b, t, maxIter, Nmax)
       \/ \E most \in PageMaxIterations \ {maxIter} :
             IntegralStart(fn, f, a, b, tol, most, Nmax)
       \/ \E N \in PageLevels \ {Nmax} :
             IntegralStart(fn, f, a, b, tol, maxIter, N)

\* calculateIntegral after the call: the result, the analytical value and
\* the records or the table stored when it returned, the message (and the
\* records collected, if any) when it threw; the finally clause.
IntegralSettle ==
    /\ fn \in PageMethods /\ pc \in {"returned", "thrown"}
    /\ IF pc = "returned"
       THEN /\ stateResult' = result
            /\ analyticalResult' = AnalyticalResult(f, a, b)
            /\ IF fn = "adaptiveCompositeTrapezoid"
               THEN /\ iterations' = IterData(cbLog, tol)
                    /\ UNCHANGED rombergTable
               ELSE /\ rombergTable' = tableData
                    /\ UNCHANGED iterations
            /\ UNCHANGED stateError
       ELSE /\ stateError' = Message(thrown)
            /\ iterations' = IF fn = "adaptiveCompositeTrapezoid" /\ Len(cbLog) > 0
                             THEN IterData(cbLog, tol)
                             ELSE iterations
            /\ UNCHANGED <<stateResult, analyticalResult, rombergTable>>
    /\ isCalculating' = FALSE
    /\ pc' = "idle"
    /\ UNCHANGED <<fn, f, a, b, tol, maxIter, hasCallback, Nmax, x0, y0, xn, A,
                   result, thrown, console, cbLog, fCalls, callerVars,
                   n, h, T_prev, T_curr, iter, romVars, odeVars, c, x_old,
                   sampleVars, rangeVars, editingPoint, selected>>

NextPage == PageMounted \/ PageChange \/ NextTrap \/ NextRom \/ IntegralSettle

SpecPage == InitPage /\ [][NextPage]_vars

----------------------------------------------------------------------------
(* lagrangeInterpolation, newtonInterpolation and linearFit (chapter 2)    *)

\* The most nodes a call is given.
MaxNodes == 3

\* undefined, and a number that is NaN, Infinity or -Infinity.
Undefined == <<"undefined">>
NotFinite == <<"not finite">>

\* The sequences of at most len elements of S.
RECURSIVE SeqsUpTo(_, _)
SeqsUpTo(S, len) ==
    IF len = 0 THEN {<<>>}
    ELSE LET shorter == SeqsUpTo(S, len - 1)
         IN  shorter \cup {Append(s, v) : s \in {t \in shorter : Len(t) = len - 1},
                                          v \in S}

XValues == {I(-1), I(0), Q(1, 2), I(2)}
YValues == {I(1), I(-2)}
Queries == XValues \cup {I(3)}

\* new Set(xs).size !== n
HasDuplicate(nodes) == Cardinality({nodes[k] : k \in 1..Len(nodes)}) # Len(nodes)

\* term of node r after the passes j = k, k + 1, ... of the inner loop.
RECURSIVE LagrangeTerm(_, _, _, _, _)
LagrangeTerm(nodes, px, r, k, term) ==
    IF k > Len(nodes) THEN term
    ELSE LagrangeTerm(nodes, px, r, k + 1,
                      IF k # r
                      THEN RMul(term, RDiv(RSub(px, nodes[k]),
                                           RSub(nodes[r], nodes[k])))
                      ELSE term)

\* result after the passes i = r, r + 1, ... of the outer loop.
RECURSIVE LagrangeSum(_, _, _, _, _)
LagrangeSum(nodes, vals, px, r, acc) ==
    IF r > Len(nodes) THEN acc
    ELSE LagrangeSum(nodes, vals, px, r + 1,
                     RAdd(acc, LagrangeTerm(nodes, px, r, 1, vals[r])))

\* What lagrangeInterpolation returns for samples that pass its checks.
LagrangeInterpolation(nodes, vals, px) == LagrangeSum(nodes, vals, px, 1, I(0))

\* The difference quotient over neighbouring nodes, xs[i+1] - xs[i].
NextColumn_Neighbours(nodes, column, col) ==
    [k \in 1..(Len(nodes) - col) |->
        RDiv(RSub(column[k + 1], column[k]), RSub(nodes[k + 1], nodes[k]))]

\* Column col of the table from the column before it:
\* table[i][j] = (table[i+1][j-1] - table[i][j-1]) / (xs[i+j] - xs[i]).
NextColumn(nodes, column, col) ==
    [k \in 1..(Len(nodes) - col) |->
        RDiv(RSub(column[k + 1], column[k]), RSub(nodes[k + col], nodes[k]))]

\* The first row of the table from column col on, column being column col.
RECURSIVE FirstRow(_, _, _)
FirstRow(nodes, column, col) ==
    IF col >= Len(nodes) THEN <<>>
    ELSE <<column[1]>> \o FirstRow(nodes, NextColumn(nodes, column, col + 1), col + 1)

\* coeffs of distinct nodes with a value each.
DividedDifferences(nodes, vals) ==
    FirstRow(nodes, [k \in 1..Len(nodes) |-> vals[k]], 0)

\* result after the passes i = k, k + 1, ... of newtonInterpolation's loop.
RECURSIVE NewtonSum(_, _, _, _, _, _)
NewtonSum(nodes, coeffs, px, k, product, acc) ==
    IF k > Len(nodes) THEN acc
    ELSE LET p == RMul(product, RSub(px, nodes[k - 1]))
         IN  NewtonSum(nodes, coeffs, px, k + 1, p, RAdd(acc, RMul(coeffs[k], p)))

\* What newtonInterpolation returns. It checks nothing: without nodes, or with
\* one node and no value, coeffs[0] is undefined; a missing value is undefined
\* and turns the sum into NaN; equal nodes make a divided difference x/0.
NewtonInterpolation(nodes, vals, px) ==
    IF Len(nodes) = 0 \/ (Len(nodes) = 1 /\ Len(vals) = 0) THEN Undefined
    ELSE IF Len(vals) < Len(nodes) \/ HasDuplicate(nodes) THEN NotFinite
    ELSE LET coeffs == DividedDifferences(nodes, vals)
         IN  NewtonSum(nodes, coeffs, px, 2, I(1), coeffs[1])

InterpFrame == <<fn, f, a, b, tol, maxIter, hasCallback, Nmax, x0, y0, xn, A,
                 console, callerVars, trapVars, romVars, x, y, points, c, x_old,
                 viewVars, sampleVars, rangeVars, pageVars, fCalls>>

InitInterp ==
    /\ fn \in {"lagrangeInterpolation", "newtonInterpolation"}
    /\ xs \in SeqsUpTo(XValues, MaxNodes)
    /\ ys \in SeqsUpTo(YValues, MaxNodes)
    /\ x \in Queries
    /\ f = "none" /\ a = I(0) /\ b = I(0) /\ tol = I(0) /\ maxIter = 0
    /\ hasCallback = FALSE /\ Nmax = I(0) /\ x0 = I(0) /\ y0 = I(0)
    /\ xn = I(0) /\ A = <<>> /\ h = I(0)
    /\ NothingOut /\ NoPage
    /\ n = 0 /\ T_prev = I(0) /\ T_curr = I(0) /\ iter = 0
    /\ R = <<>> /\ tableData = <<>> /\ rowData = <<>> /\ i = 0 /\ j = 0
    /\ y = I(0) /\ points = <<>> /\ c = I(0) /\ x_old = <<>>
    /\ FirstCall

\* n !== ys.length
LengthMismatch(nodes, vals) == Len(nodes) # Len(vals)

\* lagrangeInterpolation: the two checks, then the double loop.
LagrangeCall ==
    /\ fn = "lagrangeInterpolation" /\ pc = "call"
    /\ IF LengthMismatch(xs, ys)
       THEN /\ thrown' = [kind |-> "InvalidInput", what |-> "length"]
            /\ pc' = "thrown"
            /\ UNCHANGED result
       ELSE IF HasDuplicate(xs)
       THEN /\ thrown' = [kind |-> "InvalidInput", what |-> "duplicate"]
            /\ pc' = "thrown"
            /\ UNCHANGED result
       ELSE /\ result' = LagrangeInterpolation(xs, ys, x)
            /\ pc' = "returned"
            /\ UNCHANGED thrown
    /\ UNCHANGED InterpFrame

\* newtonInterpolation: the divided differences, then the loop.
NewtonInterpolationCall ==
    /\ fn = "newtonInterpolation" /\ pc = "call"
    /\ result' = NewtonInterpolation(xs, ys, x)
    /\ pc' = "returned"
    /\ UNCHANGED <<thrown, InterpFrame>>

NextInterp == LagrangeCall \/ NewtonInterpolationCall

SpecInterp == InitInterp /\ [][NextInterp]_vars

\* linearFit's numbers are floating-point, as those of the trapezoid rule.
\* xs.reduce((sum, v, i) => sum + g(v, i), 0) from index k on, sum so far;
\* terms[i] is g(v, i).
RECURSIVE SumOver(_, _, _)
SumOver(terms, k, sum) ==
    IF k > Len(terms) THEN sum
    ELSE SumOver(terms, k + 1, FAdd(sum, terms[k]))

\* The sums of linearFit and its denominator n * sumX2 - sumX * sumX.
SumX(nodes) == SumOver(nodes, 1, I(0))
SumY(vals) == SumOver(vals, 1, I(0))
SumXY(nodes, vals) ==
    SumOver([k \in 1..Len(nodes) |-> FMul(nodes[k], vals[k])], 1, I(0))
SumX2(nodes) ==
    SumOver([k \in 1..Len(nodes) |-> FMul(nodes[k], nodes[k])], 1, I(0))
Denominator(nodes) ==
    FSub(FMul(I(Len(nodes)), SumX2(nodes)), FMul(SumX(nodes), SumX(nodes)))

\* The slope with sumX * sumX for sumX * sumY.
Slope_SumsSwapped(nodes, vals) ==
    FDiv(FSub(FMul(I(Len(nodes)), SumXY(nodes, vals)),
              FMul(SumX(nodes), SumX(nodes))),
         Denominator(nodes))

\* b = (n * sumXY - sumX * sumY) / denominator
Slope(nodes, vals) ==
    FDiv(FSub(FMul(I(Len(nodes)), SumXY(nodes, vals)),
              FMul(SumX(nodes), SumY(vals))),
         Denominator(nodes))

\* a = (sumY - b * sumX) / n
Intercept(nodes, vals) ==
    FDiv(FSub(SumY(vals), FMul(Slope(nodes, vals), SumX(nodes))), I(Len(nodes)))

\* The values of the nodes on the line y = p + q * x.
OnLine(p, q, nodes) == [k \in 1..Len(nodes) |-> RAdd(p, RMul(q, nodes[k]))]

LineIntercepts == {I(1), I(0), Q(-1, 2)}
LineSlopes == {I(2), I(0), I(-1)}

\* The x of linearFit's samples.
FitXValues == {I(-1), I(0), Q(7, 2)}

InitFit ==
    /\ fn = "linearFit"
    /\ xs \in SeqsUpTo(FitXValues, MaxNodes)
    /\ ys \in SeqsUpTo(YValues, MaxNodes)
              \cup {OnLine(p, q, xs) : p \in LineIntercepts, q \in LineSlopes}
    /\ x = I(0)
    /\ f = "none" /\ a = I(0) /\ b = I(0) /\ tol = I(0) /\ maxIter = 0
    /\ hasCallback = FALSE /\ Nmax = I(0) /\ x0 = I(0) /\ y0 = I(0)
    /\ xn = I(0) /\ A = <<>> /\ h = I(0)
    /\ NothingOut /\ NoPage
    /\ n = 0 /\ T_prev = I(0) /\ T_curr = I(0) /\ iter = 0
    /\ R = <<>> /\ tableData = <<>> /\ rowData = <<>> /\ i = 0 /\ j = 0
    /\ y = I(0) /\ points = <<>> /\ c = I(0) /\ x_old = <<>>
    /\ FirstCall

\* linearFit: the check of the lengths, the sums, the check of the
\* denominator, then [a, b].
LinearFitCall ==
    /\ fn = "linearFit" /\ pc = "call"
    /\ IF Len(xs) # Len(ys) \/ Len(xs) = 0
       THEN /\ thrown' = [kind |-> "InvalidInput", what |-> "length"]
            /\ pc' = "thrown"
            /\ UNCHANGED result
       ELSE IF Denominator(xs) = I(0)
       THEN /\ thrown' = [kind |-> "InvalidInput", what |-> "denominator"]
            /\ pc' = "thrown"
            /\ UNCHANGED result
       ELSE /\ result' = <<Intercept(xs, ys), Slope(xs, ys)>>
            /\ pc' = "returned"
            /\ UNCHANGED thrown
    /\ UNCHANGED InterpFrame

SpecFit == InitFit /\ [][LinearFitCall]_vars

\* The three functions of the chapter.
InitSamples == InitInterp \/ InitFit

NextSamples == NextInterp \/ LinearFitCall

SpecSamples == InitSamples /\ [][NextSamples]_vars

----------------------------------------------------------------------------
(* The point lists of LagrangeView and LinearFitView                       *)

\* fn is the page; `points` is state.interpolationPoints or state.dataPoints,
\* stateResult state.result or state.fitResult, x state.targetX. Rows are
\* counted from 1, editingPoint.index from 0 as in the code; console is what
\* the last handler alerted.
EditorPages == {"LagrangeView", "LinearFitView"}

\* The longest list and the largest coordinate addPoint is followed to.
MaxRows == 3
MaxCoordinate == 3

\* What is typed into the input for y of the row being edited.
EditValues == {I(1)}

Point(px, py) == [x |-> px, y |-> py]

\* The first points of the lists the pages open with.
InitialPoints(page) ==
    IF page = "LagrangeView"
    THEN <<Point(I(0), I(0)), Point(I(1), I(1)), Point(I(2), I(3))>>
    ELSE <<Point(I(1), I(1)), Point(I(2), I(2)), Point(I(3), Q(29, 10))>>

XsOf(pts) == [k \in 1..Len(pts) |-> pts[k].x]
YsOf(pts) == [k \in 1..Len(pts) |-> pts[k].y]
AllFinite(vals) == \A k \in 1..Len(vals) : vals[k] # NotFinite

\* calculateInterpolation and calculateFit throw (and alert) on these lists.
CalculationFails(page, pts) ==
    \/ Len(pts) < 2
    \/ page = "LagrangeView" /\ HasDuplicate(XsOf(pts))
    \/ page = "LinearFitView" /\ Denominator(XsOf(pts)) = I(0)

\* state.result or state.fitResult after the watcher has run
\* calculateInterpolation or calculateFit on the list: as it was when the
\* call alerts, otherwise what the call returns.
Recalculated(page, pts, px, old) ==
    IF CalculationFails(page, pts) THEN old
    ELSE IF page = "LagrangeView"
    THEN IF AllFinite(YsOf(pts))
         THEN LagrangeInterpolation(XsOf(pts), YsOf(pts), px)
         ELSE NotFinite
    ELSE IF AllFinite(YsOf(pts))
         THEN <<Intercept(XsOf(pts), YsOf(pts)), Slope(XsOf(pts), YsOf(pts))>>
         ELSE <<NotFinite, NotFinite>>

\* parseFloat(v.toFixed(1)): the nearest tenth, a tie away from 0.
ToFixed1(v) ==
    IF v = NotFinite THEN NotFinite
    ELSE LET tenths == ((2 * 10 * IAbs(v[1])) + v[2]) \div (2 * v[2])
         IN  Q(IF v[1] < 0 THEN -tenths ELSE tenths, 10)

\* lastPoint.y + slope * (newX - lastPoint.x), slope from the last two points.
LinearPrediction(secondLast, last, newX) ==
    IF last.y = NotFinite \/ secondLast.y = NotFinite \/ last.x = secondLast.x
    THEN NotFinite
    ELSE RAdd(last.y, RMul(RDiv(RSub(last.y, secondLast.y),
                                RSub(last.x, secondLast.x)),
                           RSub(newX, last.x)))

\* The point addPoint pushes.
NewPoint(page, pts, fit) ==
    LET last == pts[Len(pts)]
        newX == RAdd(last.x, I(1))
    IN  IF page = "LagrangeView"
        THEN Point(newX, LinearPrediction(pts[Len(pts) - 1], last, newX))
        ELSE Point(newX,
                   ToFixed1(IF fit # Null
                            THEN IF fit[1] = NotFinite \/ fit[2] = NotFinite
                                 THEN NotFinite
                                 ELSE RAdd(fit[1], RMul(fit[2], newX))
                            ELSE LinearPrediction(pts[Len(pts) - 1], last, newX)))

\* The point is within the coordinates the lists are followed to: up to
\* MaxCoordinate, y an integer.
WithinCoordinates(p) ==
    /\ RLe(p.x, I(MaxCoordinate))
    /\ IF p.y = NotFinite THEN TRUE
       ELSE RLe(RAbs(p.y), I(MaxCoordinate)) /\ p.y[2] = 1

\* The list without row r.
Spliced(pts, r) == [k \in 1..(Len(pts) - 1) |-> IF k < r THEN pts[k] ELSE pts[k + 1]]

EditorFrame == <<fn, pc, f, a, b, tol, maxIter, hasCallback, Nmax, x0, y0, xn, A,
                 result, thrown, cbLog, fCalls, callerVars, trapVars, romVars,
                 x, y, c, x_old, viewVars, sampleVars, rangeVars,
                 stateError, rombergTable, analyticalResult>>

\* The row that shows the two inputs, save and cancel: the one whose index is
\* editingPoint.index, if there is one.
EditedRowShown == editingPoint.index >= 0 /\ editingPoint.index < Len(points)

\* The page after onMounted has run.
InitEditor ==
    /\ fn \in EditorPages
    /\ points = InitialPoints(fn)
    /\ x = Q(1, 2)
    /\ stateResult = Recalculated(fn, points, x, Null)
    /\ editingPoint = NoEdit
    /\ selected = 0
    /\ minY = NoValue /\ maxY = NoValue
    /\ stateError = Null /\ rombergTable = <<>> /\ analyticalResult = Null
    /\ pc = "idle"
    /\ f = "none" /\ a = I(0) /\ b = I(0) /\ tol = I(0) /\ maxIter = 0
    /\ hasCallback = FALSE /\ Nmax = I(0) /\ x0 = I(0) /\ y0 = I(0)
    /\ xn = I(0) /\ A = <<>> /\ h = I(0)
    /\ result = NoValue /\ thrown = NoError
    /\ console = "none" /\ cbLog = <<>> /\ fCalls = 0
    /\ iterations = <<>> /\ isCalculating = FALSE
    /\ n = 0 /\ T_prev = I(0) /\ T_curr = I(0) /\ iter = 0
    /\ R = <<>> /\ tableData = <<>> /\ rowData = <<>> /\ i = 0 /\ j = 0
    /\ y = I(0) /\ c = I(0) /\ x_old = <<>>
    /\ NoSamples /\ FirstCall

\* The list has changed: the watcher recalculates, with an alert when the
\* calculation throws.
ListChanged ==
    /\ stateResult' = Recalculated(fn, points', x, stateResult)
    /\ console' = IF CalculationFails(fn, points') THEN "alert" ELSE "none"

\* addPoint, from the button below the table.
AddPoint ==
    /\ fn \in EditorPages
    /\ Len(points) < MaxRows
    /\ WithinCoordinates(NewPoint(fn, points, stateResult))
    /\ points' = Append(points, NewPoint(fn, points, stateResult))
    /\ ListChanged
    /\ UNCHANGED <<editingPoint, selected, EditorFrame>>

\* removePoint(index), from the button of a row that is not being edited.
RemovePoint ==
    /\ fn \in EditorPages
    /\ \E r \in 1..Len(points) :
          /\ editingPoint.index # r - 1
          /\ IF Len(points) > 2
             THEN /\ points' = Spliced(points, r)
                  /\ selected' = IF selected = r THEN 0
                                 ELSE IF selected > r THEN selected - 1
                                 ELSE selected
                  /\ ListChanged
             ELSE /\ console' = "alert"
                  /\ UNCHANGED <<points, selected, stateResult>>
    /\ UNCHANGED <<editingPoint, EditorFrame>>

\* startEdit(index), from the button of a row that is not being edited.
StartEdit ==
    /\ fn \in EditorPages
    /\ \E r \in 1..Len(points) :
          /\ editingPoint.index # r - 1
          /\ editingPoint' = [index |-> r - 1, x |-> points[r].x, y |-> points[r].y]
          /\ selected' = r
    /\ console' = "none"
    /\ UNCHANGED <<points, stateResult, EditorFrame>>

\* A number typed into the input for y of the row being edited.
EditInput ==
    /\ fn \in EditorPages
    /\ EditedRowShown
    /\ \E v \in EditValues \ {editingPoint.y} :
          editingPoint' = [editingPoint EXCEPT !.y = v]
    /\ console' = "none"
    /\ UNCHANGED <<points, selected, stateResult, EditorFrame>>

\* saveEdit, from the button of the row being edited.
SaveEdit ==
    /\ fn \in EditorPages
    /\ EditedRowShown
    /\ IF editingPoint.index >= 0
       THEN /\ points' = [points EXCEPT ![editingPoint.index + 1] =
                                           Point(editingPoint.x, editingPoint.y)]
            /\ editingPoint' = [editingPoint EXCEPT !.index = -1]
            /\ selected' = 0
            /\ ListChanged
       ELSE /\ console' = "none"
            /\ UNCHANGED <<points, editingPoint, selected, stateResult>>
    /\ UNCHANGED EditorFrame

\* cancelEdit, from the button of the row being edited.
CancelEdit ==
    /\ fn \in EditorPages
    /\ EditedRowShown
    /\ editingPoint' = [editingPoint EXCEPT !.index = -1]
    /\ selected' = 0
    /\ console' = "none"
    /\ UNCHANGED <<points, stateResult, EditorFrame>>

NextEditor ==
    AddPoint \/ RemovePoint \/ StartEdit \/ EditInput \/ SaveEdit \/ CancelEdit

SpecEditor == InitEditor /\ [][NextEditor]_vars

----------------------------------------------------------------------------
(* A caller that calls again: it keeps what the call returned.             *)

\* What the caller has of a call that is over: what it returned or threw,
\* what it wrote to the console, the records its callback received, the
\* Romberg table and the trajectory.
Outcome ==
    [fn |-> fn, result |-> result, console |-> console, thrown |-> thrown,
     cbLog |-> cbLog, tableData |-> tableData, points |-> points]

\* The call is over and the caller calls the same function again, with
\* arguments of its choice.
CallAgain ==
    /\ pc = "returned"
    /\ prev' = Outcome
    /\ tol' \in (IF LinCalled THEN LinTols ELSE RootTols)
    /\ maxIter' \in 0..MaxIterBound
    /\ CASE fn = "bisection" ->
              /\ f' \in RootFNames
              /\ \E iv \in RootIntervals : a' = iv[1] /\ b' = iv[2]
              /\ UNCHANGED <<x0, A>>
         [] fn = "newtonMethod" ->
              /\ f' \in RootFNames
              /\ x0' \in {I(0), I(1), I(2)}
              /\ UNCHANGED <<a, b, A>>
         [] OTHER ->
              /\ A' \in Matrices
              /\ b' \in RightSides
              /\ x0' \in FirstGuesses
              /\ UNCHANGED <<f, a>>
    /\ passed' = [a |-> a', b |-> b', x0 |-> x0', A |-> A']
    /\ pc' = "call" /\ result' = NoValue /\ console' = "none"
    /\ n' = 0 /\ iter' = 0 /\ i' = 0 /\ x' = I(0) /\ c' = I(0) /\ x_old' = <<>>
    /\ UNCHANGED <<fn, hasCallback, Nmax, y0, xn, thrown, cbLog, h, T_prev,
                   T_curr, R, tableData, rowData, j, y, points, viewVars,
                   sampleVars, rangeVars, pageVars, fCalls>>

\* The eight solvers.
Solvers == {"bisection", "newtonMethod", "jacobi", "gaussSeidel",
            "adaptiveCompositeTrapezoid", "rombergIntegrationWithTable",
            "improvedEuler", "rungeKutta4"}

\* The call is over and the caller, for the first time, calls the same
\* function again with the arguments it passed before. It keeps the outcome
\* of the call that is over; what the new call returns, throws, logs and
\* reports is yet to come. The locals are what the call that is over left.
CallSame ==
    /\ fn \in Solvers
    /\ pc \in {"returned", "thrown"}
    /\ prev = NoPrev
    /\ prev' = Outcome
    /\ a' = passed.a /\ b' = passed.b
    /\ pc' = "call" /\ result' = NoValue /\ thrown' = NoError
    /\ console' = "none" /\ cbLog' = <<>> /\ fCalls' = 0
    /\ UNCHANGED <<fn, f, tol, maxIter, hasCallback, Nmax, x0, y0, xn, A, passed,
                   n, h, T_prev, T_curr, iter, romVars, odeVars, c, x_old,
                   viewVars, sampleVars, rangeVars, pageVars>>

InitTwice == InitTrap \/ InitRom \/ InitOde \/ InitRoot \/ InitLin

NextTwice == NextTrap \/ NextRom \/ NextOde \/ NextRoot \/ NextLin \/ CallSame

SpecTwice == InitTwice /\ [][NextTwice]_vars

InitSolvers == InitRoot \/ InitLin

NextSolvers == NextRoot \/ NextLin \/ CallAgain

SpecSolvers == InitSolvers /\ [][NextSolvers]_vars

----------------------------------------------------------------------------
(* Reference values: the quantities the statements below speak of,         *)
(* computed directly from their definitions and not by the recurrences.    *)

\* f(lo + k*step) summed over k = from..upto.
RECURSIVE SumNodes(_, _, _, _, _)
SumNodes(g, lo, step, from, upto) ==
    IF from > upto THEN I(0)
    ELSE IF from = upto THEN Feval(g, RAdd(lo, RMul(I(from), step)))
    ELSE LET mid == (from + upto) \div 2
         IN  RAdd(SumNodes(g, lo, step, from, mid),
                  SumNodes(g, lo, step, mid + 1, upto))

\* The composite trapezoid sum of g over [lo, hi] with cnt equal panels.
CompositeTrapezoid(g, lo, hi, cnt) ==
    LET step == RDiv(RSub(hi, lo), I(cnt))
    IN  RMul(step, RAdd(RAdd(RDiv(Feval(g, lo), I(2)),
                             SumNodes(g, lo, step, 1, cnt - 1)),
                        RDiv(Feval(g, hi), I(2))))

\* T_k, the estimate with 2^k panels, and the error |T_k - T_(k-1)|.
TrapEstimate(k) == CompositeTrapezoid(f, a, b, Pow(2, k))

\* T_0, ..., T_k as adaptiveCompositeTrapezoid computes them, after the
\* estimates so far; T_k; the error of pass k.
RECURSIVE TrapSequence(_, _)
TrapSequence(sofar, k) ==
    IF Len(sofar) > k THEN sofar
    ELSE LET m    == Len(sofar)
             step == FDiv(FSub(b, a), I(Pow(2, m)))
         IN  TrapSequence(Append(sofar, TrapRefine(sofar[m], step,
                                                   Last(SumOdd(f, a, step, Pow(2, m), <<I(0)>>)))),
                          k)
TrapComputed(k) == TrapSequence(<<TrapSingle(f, a, b)>>, k)[k + 1]
TrapError(k) == RAbs(FSub(TrapComputed(k), TrapComputed(k - 1)))

\* Row r of the Romberg scheme of f over [a, b] below the row upper, after
\* its entries so far: the entry of column c extrapolates from its left and
\* upper-left neighbours.
RECURSIVE RefRow(_, _, _)
RefRow(upper, sofar, r) ==
    IF Len(sofar) > r THEN sofar
    ELSE LET col  == Len(sofar)
             left == sofar[col]
             up   == upper[col]
         IN  RefRow(upper,
                    Append(sofar, FAdd(left, FDiv(FSub(left, up), I(Pow(4, col) - 1)))),
                    r)

\* Rows 0..r of the scheme, after the rows so far: column 0 of row m is T_m.
RECURSIVE RefRows(_, _)
RefRows(sofar, r) ==
    IF Len(sofar) > r THEN sofar
    ELSE LET m == Len(sofar)
         IN  RefRows(Append(sofar, RefRow(sofar[m], <<TrapComputed(m)>>, m)), r)
RefTable(r) == RefRows(<<<<TrapComputed(0)>>>>, r)

\* The Romberg entry R[r][c] of f over [a, b].
RefR(r, col) == RefTable(r)[r + 1][col + 1]

\* The entries 1 <= c <= r <= Nmax that meet tol, and the first of them in the
\* order of computation.
RefHits ==
    {p \in (1..Nmax[1]) \X (1..Nmax[1]) :
        /\ p[2] <= p[1]
        /\ RLt(RAbs(FSub(RefR(p[1], p[2]), RefR(p[1] - 1, p[2] - 1))), tol)}
Before(p, q) == p[1] < q[1] \/ (p[1] = q[1] /\ p[2] <= q[2])
FirstHit == CHOOSE p \in RefHits : \A q \in RefHits : Before(p, q)

TrapCalled == fn = "adaptiveCompositeTrapezoid"
RomCalled == fn = "rombergIntegrationWithTable"
RomValid == RLt(a, b) /\ IsInteger(Nmax) /\ RLe(I(1), Nmax) /\ RLt(I(0), tol)

\* Entry (r, c) of the returned table, rows and columns counted from 0.
Entry(r, col) == tableData[r + 1][col + 1]
\* Whether the returned table holds entry (r, c).
Holds(r, col) == r + 1 <= Len(tableData) /\ col + 1 <= Len(tableData[r + 1])

----------------------------------------------------------------------------
(* The claims.                                                             *)

\* C1 (as stated): when adaptiveCompositeTrapezoid spends maxIter passes
\* without meeting tol, the Error it throws carries the error
\* |T_curr - T_prev| that the last pass computed and compared against tol
\* (the error of the last callback record).
C1_CarriesFinalError ==
    (TrapCalled /\ thrown.kind = "NotConverged" /\ hasCallback /\ maxIter >= 1)
        => thrown.lastError = Last(cbLog).error

\* C2 (as stated): what bisection, newtonMethod, jacobi or gaussSeidel returns
\* tells a spent budget from convergence: no two calls of one function return
\* the same thing, one after console.warn (maxIter spent) and the other not.
C2_ReturnTellsConvergence ==
    (pc = "returned" /\ prev.fn = fn /\ prev.result = result)
        => ((prev.console = "warn") <=> (console = "warn"))

\* C3 (as stated): in improvedEuler and rungeKutta4, when less than h is left
\* before the last step, the last point is the method's one-step result from
\* the point before it with the width xn - x of what was left.
C3_LastStepUsesClampedWidth ==
    (OdeCalled /\ pc = "returned" /\ Len(points) >= 2) =>
        LET pen  == points[Len(points) - 1]
            left == RSub(xn, pen.x)
        IN  RLt(left, h) =>
                Last(points).y = OdeStepOf(fn, f, pen.x, pen.y, left)

\* C4 (as stated): improvedEuler and rungeKutta4 called with h <= 0 or xn <= x0
\* throw InvalidInput: they build no trajectory, never reach their loop and
\* return nothing.
C4_RejectsInvalidStep ==
    (OdeCalled /\ (RLe(h, I(0)) \/ RLe(xn, x0))) =>
        \/ pc = "call"
        \/ pc = "thrown" /\ thrown.kind = "InvalidInput" /\ points = <<>>

\* C5: adaptiveCompositeTrapezoid starts at n = 1, doubles n in every pass, and
\* returns T_k for the first k >= 1 with |T_k - T_(k-1)| < tol: while it loops
\* no pass so far met tol, and what it returns is the estimate of the first
\* pass that did.
C5_ReturnsFirstBelowTol ==
    (TrapCalled /\ pc \in {"loop", "returned"}) =>
        /\ n = Pow(2, iter)
        /\ pc = "loop" =>
              /\ T_prev = TrapComputed(iter)
              /\ \A k \in 1..iter : ~RLt(TrapError(k), tol)
        /\ pc = "returned" =>
              /\ iter >= 1
              /\ result = TrapComputed(iter)
              /\ RLt(TrapError(iter), tol)
              /\ \A k \in 1..(iter - 1) : ~RLt(TrapError(k), tol)

C5_Witness == TrapCalled /\ pc = "returned" /\ iter >= 2

\* C6: when some entry R[r][c], 1 <= c <= r <= Nmax, meets
\* |R[r][c] - R[r-1][c-1]| < tol, rombergIntegrationWithTable returns the first
\* such entry: it is the last entry of the last row of the returned table, no
\* entry after it is computed, and no entry before it meets the test.
C6_ReturnsAtFirstHit ==
    (RomCalled /\ pc = "returned" /\ RefHits # {}) =>
        LET p == FirstHit
        IN  /\ result = RefR(p[1], p[2])
            /\ Len(tableData) = p[1] + 1
            /\ Len(Last(tableData)) = p[2] + 1
            /\ Last(Last(tableData)) = result
            /\ \A r \in 1..Nmax[1], col \in 1..Nmax[1] :
                  /\ (Holds(r, col) /\ <<r, col>> # p) =>
                        ~RLt(RAbs(FSub(Entry(r, col), Entry(r - 1, col - 1))), tol)
                  /\ (~Before(<<r, col>>, p)) => R[r][col] = I(0)

C6_Witness ==
    /\ RomCalled /\ pc = "returned" /\ RefHits # {}
    /\ FirstHit[1] >= 2 /\ FirstHit[2] < FirstHit[1]

\* C7: when no entry meets the test, a valid call does not throw: it returns
\* R[Nmax][Nmax] and the full table of Nmax + 1 rows, row r with r + 1 entries.
C7_FullTableWhenNoHit ==
    (RomCalled /\ RomValid /\ RefHits = {}) =>
        /\ pc # "thrown"
        /\ pc = "returned" =>
              /\ Len(tableData) = Nmax[1] + 1
              /\ \A r \in 0..Nmax[1] : Len(tableData[r + 1]) = r + 1
              /\ result = Entry(Nmax[1], Nmax[1])
              /\ result = RefR(Nmax[1], Nmax[1])

C7_Witness == RomCalled /\ pc = "returned" /\ RefHits = {} /\ Nmax[1] >= 2

\* C8: the returned table is lower-triangular: at most Nmax + 1 rows, every row
\* r but the last has exactly r + 1 entries, the last has at most r + 1 and has
\* fewer only when the call returned by early exit in that row.
C8_LowerTriangular ==
    (RomCalled /\ pc = "returned") =>
        LET rows == Len(tableData)
            last == Last(tableData)
        IN  /\ rows <= Nmax[1] + 1
            /\ \A r \in 1..(rows - 1) : Len(tableData[r]) = r
            /\ Len(last) <= rows
            /\ Len(last) < rows =>
                  /\ Len(last) >= 2
                  /\ result = Last(last)
                  /\ RLt(RAbs(FSub(Last(last), tableData[rows - 1][Len(last) - 1])), tol)

C8_Witness ==
    /\ RomCalled /\ pc = "returned"
    /\ Len(tableData) >= 3 /\ Len(Last(tableData)) < Len(tableData)

\* C9: with a callback, the callback receives one record per iteration, the
\* single-panel estimate as iterCount 0, in the order 0, 1, 2, ... with
\* n = 2^iterCount; all of them before the call ends; the last record is that
\* of the pass that met tol, or of pass maxIter when the call throws.
C9_OneRecordPerIteration ==
    (TrapCalled /\ hasCallback /\ pc # "call" /\ thrown.kind # "InvalidInput") =>
        /\ Len(cbLog) = iter + 1
        /\ \A k \in 1..Len(cbLog) :
              /\ cbLog[k].iterCount = k - 1
              /\ cbLog[k].n = Pow(2, k - 1)
              /\ cbLog[k].value = TrapComputed(k - 1)
        /\ pc = "returned" =>
              /\ Last(cbLog).value = result
              /\ RLt(Last(cbLog).error, tol)
        /\ pc = "thrown" => Last(cbLog).iterCount = maxIter

C9_Witness ==
    /\ TrapCalled /\ hasCallback /\ pc = "thrown" /\ thrown.kind = "NotConverged"
    /\ Len(cbLog) >= 3

\* C10: bisection with f(a)*f(b) >= 0 returns null after console.error without
\* a bisection step (c is never assigned, a and b are as given); it reaches
\* its loop only when f(a)*f(b) < 0.
C10_NoSignChangeRejected ==
    (fn = "bisection" /\ pc # "call") =>
        IF pc = "returned" /\ console = "error"
        THEN /\ result = Null
             /\ c = I(0) /\ i = 0
             /\ ~RLt(RMul(Feval(f, a), Feval(f, b)), I(0))
        ELSE /\ result # Null
             /\ i = 0 => RLt(RMul(Feval(f, a), Feval(f, b)), I(0))

C10_Witness ==
    /\ fn = "bisection" /\ pc = "returned" /\ result = Null
    /\ Feval(f, b) = I(0)

\* C11 as stated: at every iterate x of newtonMethod with |f'(x)| < 1e-12, x0
\* included and whatever tol and the passes left, the call fails and returns
\* no root.
C11_FailsAtEverySmallDerivative ==
    (fn = "newtonMethod" /\ pc = "returned" /\ Below1e12(Fprime(f, x))) =>
        (result = Null /\ console = "error")

\* C11, amended: newtonMethod never updates x where |f'(x)| < 1e-12. At such
\* an iterate a pass of the loop (i < maxIter) leaves x alone and returns null
\* with a console error, whatever tol is; with the budget used up no pass
\* runs, f' is not evaluated and x itself is returned with the warning.
C11_NoUpdateAtSmallDerivative ==
    [][(fn = "newtonMethod" /\ pc = "loop" /\ Below1e12(Fprime(f, x))) =>
          /\ x' = x
          /\ pc' = "returned"
          /\ IF i < maxIter
             THEN result' = Null /\ console' = "error"
             ELSE result' = x /\ console' = "warn"]_vars

\* The failure at an iterate after x0.
C11_Witness ==
    /\ fn = "newtonMethod" /\ pc = "returned" /\ result = Null
    /\ i >= 1 /\ x # x0 /\ Below1e12(Fprime(f, x))

\* Some diagonal entry of M is below 1e-12 in absolute value.
HasSmallPivot(M) == \E k \in 1..Len(M) : Below1e12(M[k][k])

ViewValid == Len(A) = n /\ ~BadRow(A, n)

\* The m-th iterate of the handler's method from x0, and its error
\* max_i |x_i^(m) - x_i^(m-1)|.
RECURSIVE IterateAt(_)
IterateAt(m) ==
    IF m = 0 THEN x0
    ELSE LET before == IterateAt(m - 1)
         IN  Sweep(ViewMethod, A, b, before, before, 1).x
ErrorAt(m) == MaxDiff(IterateAt(m), IterateAt(m - 1), 1)

\* The first iteration whose error is below tol, or maxIter if there is none.
StopAt ==
    LET met == {m \in 1..maxIter : RLt(ErrorAt(m), tol)}
    IN  IF met = {} THEN maxIter ELSE CHOOSE m \in met : \A k \in met : m <= k

\* C13: the history of a calculateJacobi or calculateGaussSeidel run holds one
\* record per executed iteration, in order, with indices 1, 2, ..., k, k the
\* first iteration whose error is below tol or maxIter; record m holds the m-th
\* iterate and its error at every later moment of the run, and the result is
\* the vector of the last record. A run that stops at the matrix checks or at
\* a small pivot leaves the history empty.
C13_OneRecordPerIteration ==
    ViewCalled =>
        IF ~ViewValid \/ HasSmallPivot(A) THEN iterations = <<>>
        ELSE /\ \A m \in 1..Len(iterations) :
                   /\ iterations[m].iteration = m
                   /\ RecordVector(iterations[m]) = IterateAt(m)
                   /\ iterations[m].error = ErrorAt(m)
             /\ pc = "loop" => Len(iterations) = iter
             /\ pc = "returned" =>
                   /\ Len(iterations) = StopAt
                   /\ Len(iterations) >= 1 =>
                         result = RecordVector(Last(iterations))

\* A run stopped by tol at its second iteration or later, with iterations to
\* spare, whose records differ.
C13_Witness ==
    /\ ViewCalled /\ pc = "returned"
    /\ Len(iterations) >= 2 /\ Len(iterations) < maxIter
    /\ RecordVector(iterations[1]) # RecordVector(iterations[2])

\* Pairwise distinct nodes, one value for each, at least one node.
DistinctNodes == Len(xs) = Len(ys) /\ Len(xs) >= 1 /\ ~HasDuplicate(xs)

IsNumber(v) == Len(v) = 2 /\ v[2] \in Nat \ {0}

\* All the nodes are the same value.
AllSame(nodes) == \A k, l \in 1..Len(nodes) : nodes[k] = nodes[l]

\* The call threw InvalidInput and returned nothing.
Rejected == pc = "thrown" /\ thrown.kind = "InvalidInput" /\ result = NoValue

\* C15 (as stated): lagrangeInterpolation throws InvalidInput exactly when
\* len(xs) # len(ys) or xs holds a value twice, linearFit exactly when the
\* lengths differ, the arrays are empty or all x are the same (the denominator
\* n*sum(x^2) - (sum x)^2 is then 0, and only then); the call that throws
\* returns nothing, and on every other input each returns numbers.
C15_MalformedSamplesRejected ==
    /\ (fn = "lagrangeInterpolation" /\ pc # "call") =>
          IF Len(xs) # Len(ys) \/ HasDuplicate(xs)
          THEN Rejected
          ELSE pc = "returned" /\ IsNumber(result)
    /\ (fn = "linearFit" /\ pc # "call") =>
          /\ IF Len(xs) # Len(ys) \/ Len(xs) = 0 \/ AllSame(xs)
             THEN Rejected
             ELSE /\ pc = "returned"
                  /\ IsNumber(result[1]) /\ IsNumber(result[2])
          /\ (Len(xs) = Len(ys) /\ Len(xs) > 0) =>
                (AllSame(xs) <=> Denominator(xs) = I(0))

\* The arguments the quadrature functions are to refuse: a >= b, tol <= 0,
\* and for the Romberg table an Nmax that is not an integer >= 1.
QuadInvalid ==
    \/ RLe(b, a)
    \/ RLe(tol, I(0))
    \/ RomCalled /\ (Nmax[2] # 1 \/ Nmax[1] < 1)

\* C16: adaptiveCompositeTrapezoid called with a >= b or tol <= 0, and
\* rombergIntegrationWithTable called with a >= b, an Nmax that is not an
\* integer >= 1 or tol <= 0, throw InvalidInput with f never evaluated, no
\* callback made and no row of the table built.
C16_QuadratureRejectsFirst ==
    ((TrapCalled \/ RomCalled) /\ QuadInvalid /\ pc # "call") =>
        /\ pc = "thrown" /\ thrown.kind = "InvalidInput"
        /\ result = NoValue
        /\ fCalls = 0
        /\ cbLog = <<>>
        /\ tableData = <<>> /\ rowData = <<>> /\ R = <<>>

\* A Romberg call refused for nothing but its fractional Nmax.
C16_Witness ==
    /\ RomCalled /\ pc = "thrown" /\ thrown.what = "Nmax >= 1"
    /\ Nmax = Q(3, 2) /\ RLt(a, b) /\ RLt(I(0), tol) /\ fCalls = 0

\* The least integer >= u.
Ceil(u) == -((-u[1]) \div u[2])

\* ceil((xn - x0) / h), the steps from x0 to xn.
StepsToEnd == Ceil(RDiv(RSub(xn, x0), h))

\* C17 (as stated): for h > 0 and xn > x0, improvedEuler and rungeKutta4 start
\* at (x0, y0), take x strictly upwards without passing xn, never hold more
\* than ceil((xn - x0)/h) + 1 points, and return exactly that many, the last
\* at x = xn.
C17_OnePointPerStep ==
    (OdeCalled /\ RLt(I(0), h) /\ RLt(x0, xn) /\ pc \in {"loop", "returned"}) =>
        /\ points[1] = [x |-> x0, y |-> y0]
        /\ \A k \in 1..(Len(points) - 1) : RLt(points[k].x, points[k + 1].x)
        /\ \A k \in 1..Len(points) : RLe(points[k].x, xn)
        /\ Len(points) <= StepsToEnd + 1
        /\ pc = "returned" =>
              /\ result = points
              /\ Len(points) = StepsToEnd + 1
              /\ Last(points).x = xn

\* |A_ii| > sum over j # i of |A_ij| in every row.
RECURSIVE OffDiagonal(_, _, _)
OffDiagonal(M, r, k) ==
    IF k > Len(M) THEN I(0)
    ELSE RAdd(IF k # r THEN RAbs(M[r][k]) ELSE I(0), OffDiagonal(M, r, k + 1))

StrictlyDominant(M) ==
    \A r \in 1..Len(M) : RLt(OffDiagonal(M, r, 1), RAbs(M[r][r]))

\* The largest of sum over j # i of |A_ij| / |A_ii|, rows r..Len(M): below 1
\* exactly for the strictly dominant matrices.
RECURSIVE Contraction(_, _)
Contraction(M, r) ==
    IF r > Len(M) THEN I(0)
    ELSE RMax(RDiv(OffDiagonal(M, r, 1), RAbs(M[r][r])), Contraction(M, r + 1))

\* The solution of the 2 x 2 system M x = rhs by Cramer's rule.
Direct(M, rhs) ==
    LET det == RSub(RMul(M[1][1], M[2][2]), RMul(M[1][2], M[2][1]))
    IN  <<RDiv(RSub(RMul(rhs[1], M[2][2]), RMul(M[1][2], rhs[2])), det),
          RDiv(RSub(RMul(M[1][1], rhs[2]), RMul(M[2][1], rhs[1])), det)>>

\* The other of the two solvers.
OtherSolver == IF fn = "jacobi" THEN "gaussSeidel" ELSE "jacobi"

\* The other solver on the same arguments, with the largest budget.
OtherRun == Solve(OtherSolver, A, b, x0, tol, MaxIterBound)

\* The call returned through if (error < tol).
ReturnedConverged ==
    LinCalled /\ pc = "returned" /\ console = "none" /\ result # Null

ErrorBound == RDiv(RMul(tol, Contraction(A, 1)), RSub(I(1), Contraction(A, 1)))

\* error of the first pass.
FirstError == MaxDiff(Sweep(fn, A, b, x0, x0, 1).x, x0, 1)

SquareOnUnit ==
    /\ TrapCalled /\ f = "sq" /\ a = I(0) /\ b = I(1)
    /\ RLt(I(0), tol) /\ pc \in {"loop", "returned"}

\* 1/3 + 1/(6 * 4^k)
SquareEstimate(k) == RAdd(Q(1, 3), Q(1, 6 * Pow(4, k)))

\* C19 (as stated): for f(x) = x^2 on [0, 1] the estimate of iteration k is
\* 1/3 + 1/(6 * 4^k), the error of every iteration k >= 2 is a quarter of the
\* error of iteration k - 1, and a returned value is less than tol from 1/3.
C19_SquareEstimates ==
    SquareOnUnit =>
        /\ T_curr = SquareEstimate(iter)
        /\ hasCallback =>
              \A k \in 0..iter :
                  /\ cbLog[k + 1].value = SquareEstimate(k)
                  /\ k >= 2 => cbLog[k + 1].error = RDiv(cbLog[k].error, I(4))
        /\ pc = "returned" => RLt(RAbs(RSub(result, Q(1, 3))), tol)

\* Iteration k adds 2^(k-1) squares of k-bit nodes: the squares and T_k take
\* 2k bits, the partial sums up to 3k - 2. No operation of the iterations up
\* to k rounds when the numbers hold that many.
SumsExact(k) == 2 * k <= Precision /\ 3 * k - 2 <= Precision

\* C19 (amended): for f(x) = x^2 on [0, 1], through the iterations whose sums
\* are exact in floating point, the estimate of iteration k is
\* 1/3 + 1/(6 * 4^k), the error of every iteration k >= 2 is a quarter of the
\* error of iteration k - 1, and a value returned there is less than tol from
\* 1/3.
C19_SquareEstimatesWhileExact ==
    SquareOnUnit =>
        /\ SumsExact(iter) => T_curr = SquareEstimate(iter)
        /\ hasCallback =>
              \A k \in 0..iter : SumsExact(k) =>
                  /\ cbLog[k + 1].value = SquareEstimate(k)
                  /\ k >= 2 => cbLog[k + 1].error = RDiv(cbLog[k].error, I(4))
        /\ (pc = "returned" /\ SumsExact(iter)) =>
              RLt(RAbs(RSub(result, Q(1, 3))), tol)

\* x^2 on [0, 1] with tol = 1/16: returned by iteration 2, whose error 1/32 is
\* a quarter of the 1/8 before it.
C19_Witness ==
    /\ SquareOnUnit /\ hasCallback /\ pc = "returned"
    /\ iter = 2 /\ SumsExact(2) /\ result = Q(11, 32)
    /\ cbLog[3].error = Q(1, 32) /\ cbLog[2].error = Q(1, 8)

\* The samples lie on the line y = p + q * x.
LiesOn(p, q) == Len(xs) = Len(ys) /\ ys = OnLine(p, q, xs)

\* a + b * x_i - y_i at every sample, for the a and b returned.
Residuals == [k \in 1..Len(xs) |->
                RSub(RAdd(result[1], RMul(result[2], xs[k])), ys[k])]

\* C20 (as stated): linearFit of n >= 2 samples on the line y = p + q * x, two
\* of them at least with different x, returns [p, q], the intercept first,
\* and the residual a + b * x_i - y_i is 0 at every sample.
C20_RecoversTheLine ==
    (fn = "linearFit" /\ pc # "call" /\ Len(xs) >= 2 /\ ~AllSame(xs)) =>
        \A p \in LineIntercepts, q \in LineSlopes : LiesOn(p, q) =>
            /\ pc = "returned"
            /\ result = <<p, q>>
            /\ \A k \in 1..Len(xs) : Residuals[k] = I(0)

\* The sum of terms[k], k = from..Len(terms), not rounded.
RECURSIVE ExactSum(_, _)
ExactSum(terms, from) ==
    IF from > Len(terms) THEN I(0)
    ELSE RAdd(terms[from], ExactSum(terms, from + 1))

\* No sum, product or difference that linearFit computes of these samples is
\* rounded.
FitExact(nodes, vals) ==
    LET xy  == [k \in 1..Len(nodes) |-> RMul(nodes[k], vals[k])]
        x2  == [k \in 1..Len(nodes) |-> RMul(nodes[k], nodes[k])]
        cnt == I(Len(nodes))
    IN  /\ SumX(nodes) = ExactSum(nodes, 1)
        /\ SumY(vals) = ExactSum(vals, 1)
        /\ SumXY(nodes, vals) = ExactSum(xy, 1)
        /\ SumX2(nodes) = ExactSum(x2, 1)
        /\ FMul(cnt, SumX2(nodes)) = RMul(cnt, SumX2(nodes))
        /\ FMul(SumX(nodes), SumX(nodes)) = RMul(SumX(nodes), SumX(nodes))
        /\ Denominator(nodes) =
              RSub(RMul(cnt, SumX2(nodes)), RMul(SumX(nodes), SumX(nodes)))
        /\ FMul(cnt, SumXY(nodes, vals)) = RMul(cnt, SumXY(nodes, vals))
        /\ FMul(SumX(nodes), SumY(vals)) = RMul(SumX(nodes), SumY(vals))
        /\ FSub(FMul(cnt, SumXY(nodes, vals)), FMul(SumX(nodes), SumY(vals)))
              = RSub(RMul(cnt, SumXY(nodes, vals)), RMul(SumX(nodes), SumY(vals)))
        /\ Denominator(nodes) # I(0) =>
              LET bx == RMul(Slope(nodes, vals), SumX(nodes))
              IN  /\ FMul(Slope(nodes, vals), SumX(nodes)) = bx
                  /\ FSub(SumY(vals), bx) = RSub(SumY(vals), bx)

\* C20 (amended): when none of its sums, products and differences is rounded,
\* linearFit of n >= 2 samples on the line y = p + q * x, two of them at least
\* with different x, returns [p, q], the intercept first, and the residual
\* a + b * x_i - y_i is 0 at every sample.
C20_RecoversTheLineWhenExact ==
    (fn = "linearFit" /\ pc # "call" /\ Len(xs) >= 2 /\ ~AllSame(xs)) =>
        \A p \in LineIntercepts, q \in LineSlopes :
            (LiesOn(p, q) /\ FitExact(xs, ys)) =>
                /\ pc = "returned"
                /\ result = <<p, q>>
                /\ \A k \in 1..Len(xs) : Residuals[k] = I(0)

\* Three samples of y = 2x + 1 fitted without rounding: a = 1, b = 2.
C20_Witness ==
    /\ fn = "linearFit" /\ pc = "returned"
    /\ Len(xs) = 3 /\ ~AllSame(xs) /\ LiesOn(I(1), I(2)) /\ FitExact(xs, ys)
    /\ result = <<I(1), I(2)>>

\* The call that is over is the second of two with the same arguments.
SecondCallOver == prev.fn = fn /\ pc \in {"returned", "thrown"}

\* C21: a solver called a second time with the arguments of the first call
\* returns or throws what the first call did, writes the same to the console
\* and leaves the same callback records, Romberg table and trajectory.
C21_SameInputsSameOutcome == SecondCallOver => Outcome = prev

\* A second trapezoid call that took three passes and failed, its callback
\* having received four records.
C21_Witness ==
    /\ SecondCallOver /\ fn = "adaptiveCompositeTrapezoid"
    /\ thrown.kind = "NotConverged" /\ Len(cbLog) = 4 /\ iter = 3

\* C22: on every path of jacobi and gaussSeidel (convergence, maxIter spent,
\* a diagonal entry below 1e-12) A, b and x0 are as the caller passed them,
\* the array the call works on is not the array x0, and neither is the array
\* it returns.
C22_ArgumentsUntouched ==
    LinCalled =>
        /\ A = passed.A /\ b = passed.b /\ x0 = passed.x0
        /\ pc # "call" => x # RefX0
        /\ pc = "returned" => result # RefX0

\* A call returned by its convergence test after passes that wrote to x: what
\* it returns differs from x0, which is as passed.
C22_Witness ==
    /\ LinCalled /\ pc = "returned" /\ console = "none"
    /\ iter >= 1 /\ result # x0 /\ x0 = passed.x0 /\ x0 = Vec(1, 1)

\* The rows of the Romberg table whose column 0 is computed.
RomRowsDone ==
    IF pc = "row" THEN i - 1 ELSE IF i > Nmax[1] THEN Nmax[1] ELSE i

\* Past the argument checks, in a pass of the loop or returned.
TrapRunning == TrapCalled /\ pc \in {"loop", "returned"}
RomRunning == RomCalled /\ pc \in {"row", "col", "returned"}

\* The node a + (2m - 1) * h of the estimate with 2^k panels, not rounded.
OddNode(k, m) ==
    RAdd(a, RMul(I(2 * m - 1), RDiv(RSub(b, a), I(Pow(2, k)))))

Unrounded(u) == FRound(u) = u

\* No operation of the estimate with 2^k panels rounds its result: the step,
\* the nodes, the values of f, every addition to the sum, the halved previous
\* estimate, the product and the final sum.
PassUnrounded(k) ==
    IF k = 0
    THEN LET width == RSub(b, a)
             ends  == RAdd(Feval(f, a), Feval(f, b))
         IN  /\ Unrounded(width) /\ Unrounded(RDiv(width, I(2)))
             /\ Unrounded(Feval(f, a)) /\ Unrounded(Feval(f, b))
             /\ Unrounded(ends)
             /\ Unrounded(RMul(RDiv(width, I(2)), ends))
    ELSE LET step == RDiv(RSub(b, a), I(Pow(2, k)))
             sums == SumOdd(f, a, FDiv(FSub(b, a), I(Pow(2, k))), Pow(2, k), <<I(0)>>)
             half == RDiv(TrapComputed(k - 1), I(2))
             new  == RMul(step, Last(sums))
         IN  /\ Unrounded(RSub(b, a)) /\ Unrounded(step)
             /\ \A m \in 1..Pow(2, k - 1) :
                   /\ Unrounded(RMul(I(2 * m - 1), step))
                   /\ Unrounded(OddNode(k, m))
                   /\ Unrounded(Feval(f, OddNode(k, m)))
                   /\ sums[m + 1] = RAdd(sums[m], Feval(f, OddNode(k, m)))
             /\ Unrounded(half) /\ Unrounded(new) /\ Unrounded(RAdd(half, new))

NoRounding(k) == \A m \in 0..k : PassUnrounded(m)

\* C23 (as stated): the estimate of the halving recurrence after i halvings,
\* adaptiveCompositeTrapezoid's T_curr at iteration i and
\* rombergIntegrationWithTable's R[i][0], is the composite trapezoid sum
\* h * (f(a)/2 + f(a + h) + ... + f(b - h) + f(b)/2) with 2^i panels; the two
\* functions compute the same number; f is called twice at the start and
\* 2^(i - 1) times in iteration i.
C23_HalvingEqualsDirectSum ==
    /\ TrapRunning =>
          /\ T_curr = TrapEstimate(iter)
          /\ fCalls = Pow(2, iter) + 1
    /\ RomRunning =>
          /\ \A r \in 0..RomRowsDone :
                R[r][0] = TrapEstimate(r) /\ R[r][0] = TrapComputed(r)
          /\ fCalls = Pow(2, RomRowsDone) + 1

\* C23 (amended): T_curr at iteration i and R[i][0] are the same number, the
\* one the recurrence T/2 + h * sumOdd yields in floating point; it is the
\* composite trapezoid sum with 2^i panels when no operation up to
\* iteration i rounds; f is called twice at the start and 2^(i - 1) times in
\* iteration i.
C23_HalvingEqualsDirectSumUnrounded ==
    /\ TrapRunning =>
          /\ T_curr = TrapComputed(iter)
          /\ NoRounding(iter) => T_curr = TrapEstimate(iter)
          /\ fCalls = Pow(2, iter) + 1
    /\ RomRunning =>
          /\ \A r \in 0..RomRowsDone :
                /\ R[r][0] = TrapComputed(r)
                /\ NoRounding(r) => R[r][0] = TrapEstimate(r)
          /\ fCalls = Pow(2, RomRowsDone) + 1

\* Row 2 of the table of x^2 over [0, 2] is begun: R[2][0] = 11/4 is the sum
\* with 4 panels, reached by the recurrence without rounding, after 5 calls
\* of f.
C23_Witness ==
    /\ RomRunning /\ pc = "col" /\ i = 2 /\ f = "sq" /\ a = I(0) /\ b = I(2)
    /\ NoRounding(2) /\ R[2][0] = Q(11, 4) /\ fCalls = 5

\* C24: in the table rombergIntegrationWithTable returns, every entry of a
\* column j >= 1 is R[i][j-1] + (R[i][j-1] - R[i-1][j-1]) / (4^j - 1) of the
\* returned entries to its left and upper left, evaluated as the code
\* evaluates it; both are in the table, the row above being complete.
C24_EntriesExtrapolate ==
    (RomCalled /\ pc = "returned") =>
        \A r \in 0..(Len(tableData) - 1) :
            \A col \in 1..(Len(tableData[r + 1]) - 1) :
                /\ r >= 1 /\ Len(tableData[r]) = r /\ col <= r
                /\ LET left == tableData[r + 1][col]
                       up   == tableData[r][col]
                   IN  tableData[r + 1][col + 1] =
                           FAdd(left, FDiv(FSub(left, up), I(Pow(4, col) - 1)))

\* A table returned from within its third row: the row stops at column 1,
\* whose entry 13/16 extrapolates 3/4 and the 1/2 above it.
C24_Witness ==
    /\ RomCalled /\ pc = "returned"
    /\ Len(tableData) = 3 /\ Len(tableData[2]) = 2 /\ Len(tableData[3]) = 2
    /\ tableData[2][1] = Q(1, 2) /\ tableData[3][1] = Q(3, 4)
    /\ tableData[3][2] = Q(13, 16)

\* bisection called with a < b, past its sign test.
BisectionRunning == fn = "bisection" /\ RLt(passed.a, passed.b) /\ pc = "loop"

\* lo < hi and f(lo) * f(hi) < 0.
Bracket(lo, hi) ==
    RLt(lo, hi) /\ RLt(RMul(FevalRounded(f, lo), FevalRounded(f, hi)), I(0))

\* (lo + hi) / 2 and (hi - lo) / 2, not rounded.
ExactMidpoint(lo, hi) == RDiv(RAdd(lo, hi), I(2))
HalfWidth(lo, hi) == RDiv(RSub(hi, lo), I(2))

\* C25 (as stated): in bisection called with a < b and f(a) * f(b) < 0, an
\* iteration that goes on leaves a < b and f(a) * f(b) < 0 with the new
\* bracket inside the old one and exactly half as wide; an iteration that
\* returns returns the midpoint c of the bracket, with f(c) = 0 or
\* (b - a) / 2 < tol.
C25_BracketHalves ==
    [][BisectionRunning =>
          /\ pc' = "loop" =>
                /\ Bracket(a', b')
                /\ RLe(a, a') /\ RLe(b', b)
                /\ RSub(b', a') = HalfWidth(a, b)
          /\ (pc' = "returned" /\ console' = "none") =>
                /\ result' = ExactMidpoint(a, b)
                /\ FevalRounded(f, result') = I(0) \/ RLt(HalfWidth(a, b), tol)]_vars

\* C25 (amended): in bisection called with a < b and f(a) * f(b) < 0, an
\* iteration that goes on leaves a < b and f(a) * f(b) < 0 with the new
\* bracket inside the old one, and exactly half as wide when the midpoint
\* (a + b) / 2 is a floating-point number; an iteration that returns returns
\* c, the midpoint rounded, with f(c) = 0 or the computed (b - a) / 2 < tol.
C25_BracketHalvesUnrounded ==
    [][BisectionRunning =>
          /\ pc' = "loop" =>
                /\ Bracket(a', b')
                /\ RLe(a, a') /\ RLe(b', b)
                /\ Unrounded(ExactMidpoint(a, b)) =>
                      RSub(b', a') = HalfWidth(a, b)
          /\ (pc' = "returned" /\ console' = "none") =>
                /\ result' = FRound(ExactMidpoint(a, b))
                /\ RLe(a, result') /\ RLe(result', b)
                /\ \/ FevalRounded(f, result') = I(0)
                   \/ RLt(FRound(HalfWidth(a, b)), tol)]_vars

\* Two iterations of x^2 - 2 over [0, 2]: the bracket is [1, 3/2], a quarter
\* as wide.
C25_Witness ==
    /\ BisectionRunning /\ f = "sq2" /\ passed.a = I(0) /\ passed.b = I(2)
    /\ i = 2 /\ a = I(1) /\ b = Q(3, 2) /\ Bracket(a, b)

\* The sum of M[r][k] * v[k] over k = from..upto.
RECURSIVE Dot(_, _, _, _, _)
Dot(M, v, r, from, upto) ==
    IF from > upto THEN I(0)
    ELSE RAdd(RMul(M[r][from], v[from]), Dot(M, v, r, from + 1, upto))

\* A pass of the outer loop computes row r: no diagonal entry of the rows
\* 1..r is below 1e-12.
RowComputed(r) == \A k \in 1..r : ~SingularPivot(A, k)

\* C26: in a pass that takes the iterate old to new, jacobi computes
\* new[i] = (b[i] - sum over j # i of A[i][j] * old[j]) / A[i][i], and
\* gaussSeidel new[i] = (b[i] - sum over j < i of A[i][j] * new[j]
\* - sum over j > i of A[i][j] * old[j]) / A[i][i].
C26_ReadsOfOnePass ==
    [][(LinCalled /\ pc = "loop" /\ iter < maxIter) =>
          \A r \in 1..Len(A) : RowComputed(r) =>
              LET below == IF fn = "jacobi" THEN Dot(A, x, r, 1, r - 1)
                           ELSE Dot(A, x', r, 1, r - 1)
                  above == Dot(A, x, r, r + 1, Len(A))
              IN  x'[r] = RDiv(RSub(RSub(b[r], below), above), A[r][r])]_vars

\* A pass of gaussSeidel that changed x[1] and read it for x[2], and a pass of
\* jacobi whose x[2] is computed from the x[1] of the iterate before.
C26_Witness ==
    /\ LinCalled /\ iter >= 1 /\ A[2][1] # I(0) /\ x[1] # x_old[1]
    /\ RowComputed(2)
    /\ IF fn = "jacobi"
       THEN x[2] = RDiv(RSub(b[2], RMul(A[2][1], x_old[1])), A[2][2])
       ELSE x[2] = RDiv(RSub(b[2], RMul(A[2][1], x[1])), A[2][2])

----------------------------------------------------------------------------
(* calculateFunctionRange: the range returned                              *)

\* The finite samples of f over [a, b], their minimum and their maximum.
FiniteSamples ==
    {Fplot(f, SampleAt(a, b, k)) : k \in 0..RangeSamples} \ {NaNValue, Throws}
LeastOf(S) == CHOOSE m \in S : \A v \in S : RLe(m, v)
GreatestOf(S) == CHOOSE m \in S : \A v \in S : RLe(v, m)
RangeCalled == fn = "calculateFunctionRange"

\* minY < maxY of the object returned.
BelowOf(u, v) == u # MAX_VALUE /\ (v = MAX_VALUE \/ RLt(u, v))

\* C27: calculateFunctionRange never fails; minY and maxY returned are the
\* minimum and the maximum of the finite samples, each moved outwards by a
\* tenth of their distance (by 0.5 when the distance is below 0.1), and
\* minY < maxY always, with a function negative everywhere and with no finite
\* sample too.
C27_RangeOfFiniteSamples ==
    RangeCalled =>
        /\ pc # "thrown"
        /\ pc = "returned" =>
              /\ BelowOf(result.minY, result.maxY)
              /\ FiniteSamples # {} =>
                    LET least == LeastOf(FiniteSamples)
                        greatest == GreatestOf(FiniteSamples)
                        yRange == RSub(greatest, least)
                        pad == IF RLt(yRange, Q(1, 10)) THEN Q(1, 2)
                               ELSE RMul(yRange, Q(1, 10))
                    IN  /\ result.minY = RSub(least, pad)
                        /\ result.maxY = RAdd(greatest, pad)

----------------------------------------------------------------------------
(* calculateBisection against bisection                                    *)

\* bisection run to its return from a, b as given: the value returned and the
\* pass it returned in (the passes made when the loop ran out).
RECURSIVE BisectionLoop(_, _, _, _, _, _, _)
BisectionLoop(g, lo, hi, t, left, pass, cur) ==
    IF left = 0 THEN [root |-> cur, iteration |-> pass]
    ELSE LET mid == Midpoint(lo, hi)
         IN  IF BisectionDone(g, lo, hi, mid, t)
             THEN [root |-> mid, iteration |-> pass + 1]
             ELSE IF RLt(FMul(FevalRounded(g, lo), FevalRounded(g, mid)), I(0))
                  THEN BisectionLoop(g, lo, mid, t, left - 1, pass + 1, mid)
                  ELSE BisectionLoop(g, mid, hi, t, left - 1, pass + 1, mid)
BisectionReturns(g, lo, hi, t, most) ==
    IF NoSignChange(g, lo, hi) THEN [root |-> Null, iteration |-> 0]
    ELSE BisectionLoop(g, lo, hi, t, most, 0, lo)

BisectionViewReturned ==
    BisectionViewCalled /\ pc = "returned" /\ ~NoExpression(f)

\* C28: calculateBisection stops at the same iteration as bisection called
\* with the page's function, end points, tolerance and iteration limit, its
\* result is the root bisection returns, and it rejects the inputs bisection
\* rejects, those with f(a) * f(b) >= 0, and no others.
C28_ViewAgreesWithCore ==
    BisectionViewReturned =>
        LET core == BisectionReturns(f, passed.a, passed.b, tol, maxIter)
        IN  /\ console = "alert" <=> core.root = Null
            /\ core.root # Null =>
                  /\ result = core.root
                  /\ Len(iterations) = core.iteration

\* The two reject the same inputs.
C28_SameRejection ==
    BisectionViewReturned =>
        (console = "alert" <=> NoSignChange(f, passed.a, passed.b))

----------------------------------------------------------------------------
(* calculateIntegral: the error and the result shown                       *)

\* No run of calculateIntegral is under way and one has been made.
PageAfterRun == fn \in PageMethods /\ pc = "idle"

\* C29: after any sequence of runs of calculateIntegral with parameters
\* changed in between, whenever state.error is not null after a run,
\* state.result is null.
C29_ErrorMeansNoResult ==
    PageAfterRun /\ stateError # Null => stateResult = Null

\* After a run on bounds with lowerBound >= upperBound the result is null.
C29_BadBoundsClearResult ==
    PageAfterRun /\ stateError = BoundsMessage => stateResult = Null

----------------------------------------------------------------------------
(* The point lists of the pages: the five handlers                         *)

EditorOpen == fn \in EditorPages

\* The list keeps at least two points.
C30_AtLeastTwoPoints == EditorOpen => Len(points) >= 2

\* editingPoint.index is -1 or the index of a point of the list.
C30_IndexValid ==
    EditorOpen =>
        editingPoint.index = -1
        \/ (editingPoint.index >= 0 /\ editingPoint.index < Len(points))

\* The row saveEdit would write is the row of the point startEdit read.
C30_SaveHitsSelected ==
    EditorOpen /\ EditedRowShown => selected = editingPoint.index + 1

\* C30: under addPoint, removePoint, startEdit, saveEdit and cancelEdit, in
\* any order, the list of either page always has at least two points,
\* editingPoint.index is always -1 or the index of a point of the list, and
\* saveEdit replaces exactly the point startEdit selected.
C30_ListAndEditConsistent ==
    C30_AtLeastTwoPoints /\ C30_IndexValid /\ C30_SaveHitsSelected

====
